---- MODULE Spec2Model ----
(***************************************************************************)
(* Field extraction and confidence fusion of the passport extractor        *)
(* (src/src/extractor.py, src/src/mrz_processor.py, src/src/patterns.py).  *)
(*                                                                         *)
(* Strings are TLA+ strings; a character is a string of length 1.          *)
(* Confidences are exact rationals scaled by ConfOne (1.0 = ConfOne).      *)
(* Arabic words of the source are written {n} in model strings:            *)
(*   {1} male  {2} female  {3} "sex" label                                 *)
(*   {10}..{20} the Arabic entries of non_name_words, in list order        *)
(*   {30} {31} {32} the Arabic entries of sudan_indicators, in list order  *)
(* The regular-expression engine is a library: what re.finditer,           *)
(* re.findall and re.search return for the catalog's patterns on the       *)
(* OCR texts of the model is tabulated (the re_* operators); everything    *)
(* the extractor does with the matches is modelled.                        *)
(***************************************************************************)
EXTENDS Integers, Sequences, FiniteSets, TLC

VARIABLES
    ocr_confidence_data,   \* UltraPassportExtractor.ocr_confidence_data: image id -> tokens
    preprocessed_images,   \* argument of extract(): sequence of [name, id, page]
    all_extracted_texts,   \* extract(): list of <<source_name, text>>
    data,                  \* extracted_data: the draft record of _smart_field_extraction
    mrz_data,              \* the record returned by extract_mrz_data
    result,                \* the record extract() returns
    request_table,         \* the tokens image_to_data returned during the current call
    confidence_call,       \* a call of _calculate_dynamic_confidence: arguments, return value
    helper_call,           \* a call of one other helper on its own: arguments, return value
    mrz_decoders,          \* the decoders extract_mrz_data called during the current call, in order
    FASTMRZ_AVAILABLE,     \* mrz_processor.FASTMRZ_AVAILABLE, set when the module is imported
    pc,                    \* position inside extract()
    now,                   \* the server's clock: time.time(), datetime.utcnow()
    rate_limiter_requests, \* security_manager.rate_limiter.requests: identifier -> entries
    security_log,          \* the entries log_security_event wrote
    issued_tokens,         \* the JWTs /auth/login has returned to clients
    logged_out_tokens,     \* the JWTs a successful /auth/logout was made with
    response,              \* the last request the server answered, and its answer
    is_allowed_frames,     \* the calls of RateLimiter.is_allowed in progress: thread -> locals
    is_allowed_returns,    \* the calls of RateLimiter.is_allowed that returned, in order
    stats,                 \* secure_app.stats
    counted_scores         \* the extraction scores counted in stats['successful_extractions']

\* the state of the extractor, and the state of the secure server
extractor_vars == <<ocr_confidence_data, preprocessed_images, all_extracted_texts, data,
                    mrz_data, result, request_table, confidence_call, helper_call,
                    mrz_decoders, FASTMRZ_AVAILABLE, pc>>

\* what the limiter's callers and the /secure/* handlers keep
service_vars == <<is_allowed_frames, is_allowed_returns, stats, counted_scores>>

server_vars == <<now, rate_limiter_requests, security_log, issued_tokens,
                 logged_out_tokens, response, service_vars>>

vars == <<extractor_vars, server_vars>>

None == "None"

\* Python truthiness of an Optional[str]
Truthy(v) == v # None /\ v # ""

-----------------------------------------------------------------------------
(* str methods *)

Chars(s) == [i \in 1..Len(s) |-> SubSeq(s, i, i)]

\* ''.join(cs[lo..hi]), halving the range
RECURSIVE ConcatRange(_, _, _)
ConcatRange(cs, lo, hi) ==
    IF lo > hi THEN ""
    ELSE IF lo = hi THEN cs[lo]
    ELSE LET mid == (lo + hi) \div 2
         IN ConcatRange(cs, lo, mid) \o ConcatRange(cs, mid + 1, hi)

Concat(cs) == ConcatRange(cs, 1, Len(cs))

LowerLetters == "abcdefghijklmnopqrstuvwxyz"
UpperLetters == "ABCDEFGHIJKLMNOPQRSTUVWXYZ"
Digits == "0123456789"

IsIn(c, alphabet) == \E i \in 1..Len(alphabet) : SubSeq(alphabet, i, i) = c

UpperChar(c) ==
    IF IsIn(c, LowerLetters)
    THEN LET i == CHOOSE j \in 1..26 : SubSeq(LowerLetters, j, j) = c
         IN SubSeq(UpperLetters, i, i)
    ELSE c

\* str.upper()
Upper(s) == Concat([i \in 1..Len(s) |-> UpperChar(SubSeq(s, i, i))])

\* str.replace(old, new) for a one-character old
Replace(s, old, new) ==
    Concat([i \in 1..Len(s) |-> IF SubSeq(s, i, i) = old THEN new ELSE SubSeq(s, i, i)])

IsSpace(c) == c \in {" ", "\n", "\t", "\r"}

\* str.strip()
Strip(s) ==
    LET keep == {i \in 1..Len(s) : ~IsSpace(SubSeq(s, i, i))}
    IN IF keep = {} THEN ""
       ELSE LET lo == CHOOSE i \in keep : \A j \in keep : i <= j
                hi == CHOOSE i \in keep : \A j \in keep : i >= j
            IN SubSeq(s, lo, hi)

\* str.split(): the whitespace-delimited tokens
RECURSIVE SplitFrom(_, _)
SplitFrom(s, i) ==
    IF i > Len(s) THEN <<>>
    ELSE IF IsSpace(SubSeq(s, i, i)) THEN SplitFrom(s, i + 1)
    ELSE LET ends == {j \in i..Len(s) : j = Len(s) \/ IsSpace(SubSeq(s, j + 1, j + 1))}
             e == CHOOSE j \in ends : \A k \in ends : j <= k
         IN <<SubSeq(s, i, e)>> \o SplitFrom(s, e + 1)

Split(s) == SplitFrom(s, 1)

\* old in s (substring)
Contains(s, w) ==
    \E i \in 1..(Len(s) - Len(w) + 1) : SubSeq(s, i, i + Len(w) - 1) = w

\* s.split('\n')[0]
FirstLine(s) ==
    LET nl == {i \in 1..Len(s) : SubSeq(s, i, i) = "\n"}
    IN IF nl = {} THEN s
       ELSE SubSeq(s, 1, (CHOOSE i \in nl : \A j \in nl : i <= j) - 1)

InSeq(x, sq) == \E i \in 1..Len(sq) : sq[i] = x

RECURSIVE SumSeq(_)
SumSeq(sq) == IF sq = <<>> THEN 0 ELSE Head(sq) + SumSeq(Tail(sq))

-----------------------------------------------------------------------------
(* The regular-expression library on the OCR texts of the model *)

\* re.finditer(self.patterns.passport_number[p], text, re.IGNORECASE):
\* match.group(1) if match.groups() else match.group(0), in match order
re_finditer_passport_number(p, text) ==
    CASE text = "B00013285 P12345678" ->
            CASE p \in {1, 2, 7, 11, 12} -> <<"P12345678">>
              [] p \in {5, 10} -> <<"B00013285", "P12345678">>
              [] p = 9 -> <<"B00013285">>
              [] OTHER -> <<>>
      [] text = "po1234567" ->
            CASE p \in {5, 6, 7} -> <<"po1234567">>
              [] OTHER -> <<>>
      [] text = "P O1234567" ->
            CASE p = 5 -> <<"O1234567">>
              [] p = 6 -> <<"P O1234567">>
              [] OTHER -> <<>>
      [] text = "AB123456\n" ->
            CASE p = 5 -> <<"AB123456">>
              [] OTHER -> <<>>
      [] text = "p 12345678\n" ->
            CASE p \in {1, 5} -> <<"p 12345678">>
              [] p = 11 -> <<"p 12345678\n">>
              [] OTHER -> <<>>
      [] text = "Passport No: P12345678\nName: ALI HASSAN MOHAMED AHMED\n" ->
            CASE p \in {1, 2, 3, 4, 5, 7, 10, 12, 13, 14} -> <<"P12345678">>
              [] p = 11 -> <<"P12345678\n">>
              [] OTHER -> <<>>
      [] text = "P12345678\n" ->
            CASE p \in {1, 2, 5, 7, 10, 12} -> <<"P12345678">>
              [] p = 11 -> <<"P12345678\n">>
              [] OTHER -> <<>>
      [] text = "Passport No: P12345678 Name: ALI HASSAN AHMED" ->
            CASE p \in {1, 2, 3, 4, 5, 7, 10, 12, 13, 14} -> <<"P12345678">>
              [] p = 11 -> <<"P12345678 ">>
              [] OTHER -> <<>>
      [] text = "P12345678" ->
            CASE p \in {1, 2, 5, 7, 10, 11, 12} -> <<"P12345678">>
              [] OTHER -> <<>>
      [] OTHER -> <<>>

\* re.finditer(self.patterns.national_id[p], text), group(1) or group(0)
re_finditer_national_id(p, text) ==
    CASE text = "National No: 242-9135-0472\n" ->
            CASE p \in {1, 2, 3, 6, 8, 10} -> <<"242-9135-0472">>
              [] OTHER -> <<>>
      [] OTHER -> <<>>

\* re.findall(self.patterns.date[1], text): the (day, month, year) groups
re_findall_date(text) ==
    CASE text = "Date of Birth 01.02.1990" ->
            <<<<"01", "02", "1990">>>>
      [] text = "Date of Issue 15.06.2015" ->
            <<<<"15", "06", "2015">>>>
      [] text = "Date of Expiry 14.06.2025" ->
            <<<<"14", "06", "2025">>>>
      [] text = "32.01.2000 1.2.1990" ->
            <<<<"32", "01", "2000">>, <<"1", "2", "1990">>>>
      [] text = "Sex: M {1}\nDate of Birth 01.02.1990\n" ->
            <<<<"01", "02", "1990">>>>
      [] text = "Date of Birth 01.02.1990\nDate of Issue 15.06.2015\nDate of Expiry 14.06.2025\n" ->
            <<<<"01", "02", "1990">>, <<"15", "06", "2015">>, <<"14", "06", "2025">>>>
      [] OTHER -> <<>>

\* re.findall(self.patterns.name[p], text)
re_findall_name(p, text) ==
    CASE text = "P O1234567" ->
            CASE p = 6 -> <<"P O">>
              [] OTHER -> <<>>
      [] text = "ALI HASSAN" ->
            CASE p \in {1, 6} -> <<"ALI HASSAN">>
              [] OTHER -> <<>>
      [] text = "OMAR AHMED" ->
            CASE p \in {1, 6} -> <<"OMAR AHMED">>
              [] OTHER -> <<>>
      [] text = "ALI HASSAN MOHAMED AHMED" ->
            CASE p \in {1, 2, 6} -> <<"ALI HASSAN MOHAMED AHMED">>
              [] p = 5 -> <<"MOHAMED ">>
              [] OTHER -> <<>>
      [] text = "REPUBLIC OF THE SUDAN" ->
            CASE p = 1 -> <<"THE SUDAN">>
              [] p \in {2, 6} -> <<"REPUBLIC OF THE SUDAN">>
              [] p = 5 -> <<"THE ">>
              [] OTHER -> <<>>
      [] text = "Name: KHALID OSMAN\nALI" ->
            CASE p \in {1, 2, 3, 6} -> <<"KHALID OSMAN\nALI">>
              [] p = 5 -> <<"OSMAN\n">>
              [] OTHER -> <<>>
      [] text = "Authority\nNATIONALITY\n" ->
            CASE p = 2 -> <<"NATIONALITY\n">>
              [] OTHER -> <<>>
      [] text = "Place of Birth: RIYADH\nAuthority: KHARTOUM" ->
            CASE p = 6 -> <<"RIYADH\nA">>
              [] OTHER -> <<>>
      [] text = "Passport No: P12345678\nName: ALI HASSAN MOHAMED AHMED\n" ->
            CASE p \in {1, 6} -> <<"ALI HASSAN MOHAMED AHMED">>
              [] p \in {2, 3} -> <<"ALI HASSAN MOHAMED AHMED\n">>
              [] p = 5 -> <<"MOHAMED ">>
              [] OTHER -> <<>>
      [] text = "REPUBLIC OF THE SUDAN\nPlace of Birth: KHARTOUM\nPlace of Issue: RIYADH\n" ->
            CASE p = 1 -> <<"THE SUDAN">>
              [] p = 2 -> <<"REPUBLIC OF THE SUDAN\nP">>
              [] p = 5 -> <<"THE ">>
              [] p = 6 -> <<"REPUBLIC OF THE SUDAN\nP", "KHARTOUM\nP">>
              [] OTHER -> <<>>
      [] text = "Passport No: P12345678 Name: ALI HASSAN AHMED" ->
            CASE p \in {1, 2, 3, 6} -> <<"ALI HASSAN AHMED">>
              [] p = 5 -> <<"HASSAN ">>
              [] OTHER -> <<>>
      [] OTHER -> <<>>

\* re.search(self.patterns.sex[p], text, re.IGNORECASE | re.DOTALL): group(1), or None
re_search_sex(p, text) ==
    CASE text = "Sex: {1} M" ->
            CASE p = 1 -> "{1}"
              [] p = 5 -> "M"
              [] OTHER -> None
      [] text = "Sex: {2} F" ->
            CASE p = 1 -> "{2}"
              [] p = 6 -> "F"
              [] OTHER -> None
      [] text = "sex: f {2}" ->
            CASE p \in {2, 4, 8} -> "f"
              [] OTHER -> None
      [] text = "{3}: M/ {1}" ->
            CASE p = 3 -> "M"
              [] OTHER -> None
      [] text = "No. {1} m" ->
            CASE p = 5 -> "m"
              [] OTHER -> None
      [] text = "Sex: M {1}\nDate of Birth 01.02.1990\n" ->
            CASE p \in {2, 3, 7} -> "M"
              [] OTHER -> None
      [] OTHER -> None

\* re.finditer(extraction_patterns[l], text, re.IGNORECASE | re.DOTALL): group(2);
\* l = 1, 2: the labels of _extract_place_of_birth; l = 3..6: those of _extract_place_of_issue
re_finditer_place(p, text) ==
    CASE text = "Authority: KHARTOUM" ->
            CASE p = 4 -> <<"KHARTOUM">>
              [] OTHER -> <<>>
      [] text = "Place of Issue: RIYADH" ->
            CASE p = 3 -> <<"RIYADH">>
              [] OTHER -> <<>>
      [] text = "Place of Issue: KHARTOUM / \nDate" ->
            CASE p = 3 -> <<"KHARTOUM / \nDate">>
              [] OTHER -> <<>>
      [] text = "Authority\nNATIONALITY\n" ->
            CASE p = 4 -> <<"NATIONALITY\n">>
              [] OTHER -> <<>>
      [] text = "Place of Birth: RIYADH\nAuthority: KHARTOUM" ->
            CASE p = 1 -> <<"RIYADH\nAuthority">>
              [] p = 4 -> <<"KHARTOUM">>
              [] OTHER -> <<>>
      [] text = "Place of Birth\nkhartoum\n" ->
            CASE p = 1 -> <<"khartoum\n">>
              [] OTHER -> <<>>
      [] text = "REPUBLIC OF THE SUDAN\nPlace of Birth: KHARTOUM\nPlace of Issue: RIYADH\n" ->
            CASE p = 1 -> <<"KHARTOUM\nPlace of Issue">>
              [] p = 3 -> <<"RIYADH\n">>
              [] OTHER -> <<>>
      [] OTHER -> <<>>

OcrTexts ==
    {"B00013285 P12345678",
     "po1234567",
     "P O1234567",
     "AB123456\n",
     "p 12345678\n",
     "ALI HASSAN",
     "OMAR AHMED",
     "ALI HASSAN MOHAMED AHMED",
     "REPUBLIC OF THE SUDAN",
     "Name: KHALID OSMAN\nALI",
     "Authority: KHARTOUM",
     "Place of Issue: RIYADH",
     "Place of Issue: KHARTOUM / \nDate",
     "Authority\nNATIONALITY\n",
     "Place of Birth: RIYADH\nAuthority: KHARTOUM",
     "Place of Birth\nkhartoum\n",
     "Date of Birth 01.02.1990",
     "Date of Issue 15.06.2015",
     "Date of Expiry 14.06.2025",
     "32.01.2000 1.2.1990",
     "Sex: {1} M",
     "Sex: {2} F",
     "sex: f {2}",
     "{3}: M/ {1}",
     "Sex: M",
     "No. {1} m",
     "Passport No: P12345678\nName: ALI HASSAN MOHAMED AHMED\n",
     "Sex: M {1}\nDate of Birth 01.02.1990\n",
     "REPUBLIC OF THE SUDAN\nPlace of Birth: KHARTOUM\nPlace of Issue: RIYADH\n",
     "Date of Birth 01.02.1990\nDate of Issue 15.06.2015\nDate of Expiry 14.06.2025\n",
     "National No: 242-9135-0472\n",
     "P12345678\n",
     "Passport No: P12345678 Name: ALI HASSAN AHMED",
     "P12345678"}

-----------------------------------------------------------------------------
(* What the OCR engine does on the pages of the model *)

\* pytesseract.image_to_string
Returned(t) == [raises |-> FALSE, text |-> t]
Raised == [raises |-> TRUE, text |-> ""]

\* pytesseract.image_to_data(..., output_type=Output.DICT)
DataReturned(text, conf) == [raises |-> FALSE, text |-> text, conf |-> conf]
DataRaised == [raises |-> TRUE, text |-> <<>>, conf |-> <<>>]

PageA ==
    [string  |-> <<Returned("Passport No: P12345678\nName: ALI HASSAN MOHAMED AHMED\n"), Returned(""), Returned("Sex: M {1}\nDate of Birth 01.02.1990\n"), Returned("")>>,
     lang    |-> <<Returned("Passport No: P12345678\nName: ALI HASSAN MOHAMED AHMED\n"), Raised>>,
     data    |-> DataReturned(<<"", "Passport", "No:", "P12345678", "Name:", "ALI", "HASSAN", "MOHAMED", "AHMED">>, <<-1, 96, 93, 91, 95, 88, 90, 40, 87>>),
     regions |-> <<Returned("P12345678\n"), Returned(""), Returned("")>>]

PageB ==
    [string  |-> <<Returned("REPUBLIC OF THE SUDAN\nPlace of Birth: KHARTOUM\nPlace of Issue: RIYADH\n"), Returned(""), Returned(""), Raised>>,
     lang    |-> <<Returned(""), Returned("")>>,
     data    |-> DataRaised,
     regions |-> <<Returned(""), Returned("National No: 242-9135-0472\n"), Returned("Date of Birth 01.02.1990\nDate of Issue 15.06.2015\nDate of Expiry 14.06.2025\n")>>]

PageC ==
    [string  |-> <<Returned("P12345678\n"), Returned(""), Returned(""), Returned("")>>,
     lang    |-> <<Returned(""), Returned("")>>,
     data    |-> DataReturned(<<"P12345678", "M">>, <<90, 0>>),
     regions |-> <<Returned(""), Returned(""), Returned("")>>]

PageBlank ==
    [string  |-> <<Returned(""), Returned(" \n"), Returned(""), Returned("")>>,
     lang    |-> <<Returned(""), Returned("")>>,
     data    |-> DataReturned(<<>>, <<>>),
     regions |-> <<Returned(""), Returned(""), Returned("")>>]

-----------------------------------------------------------------------------
(* Pattern Catalog: the ordered pattern lists and the lexicons *)

NumPassportPatterns == 14
NumNationalIdPatterns == 10
NumNamePatterns == 10
NumSexPatterns == 8

non_name_words ==
    <<"REPUBLIC", "SUDAN", "PASSPORT", "TYPE", "NATIONAL",
      "NUMBER", "DATE", "BIRTH", "ISSUE", "EXPIRY", "SEX",
      "PLACE", "NATIONALITY", "SIGNATURE", "HOLDER", "AUTHORITY",
      "GENDER", "COUNTRY", "CODE", "DOCUMENT", "IDENTIFICATION",
      "{10}", "{11}", "{12}", "{13}", "{14}",
      "{15}", "{16}", "{17}", "{18}", "{19}",
      "SDN">>

sudan_indicators ==
    <<"SDN", "SUDAN", "REPUBLIC OF SUDAN", "REPUBLIC OF THE SUDAN",
      "{11}", "{10} {11}", "SUDANESE", "{30}">>

-----------------------------------------------------------------------------
(* Confidences: exact rationals in units of 1/ConfOne *)

ConfOne == 30 * 100

\* p hundredths
Pct(p) == p * (ConfOne \div 100)

\* n/d rounded to the nearest integer, ties to even (n >= 0, d > 0)
RoundHalfEven(n, d) ==
    LET f == n \div d
        r == n % d
    IN IF 2 * r < d THEN f
       ELSE IF 2 * r > d THEN f + 1
       ELSE IF f % 2 = 0 THEN f ELSE f + 1

Min(a, b) == IF a <= b THEN a ELSE b

-----------------------------------------------------------------------------
(* Python dicts *)

EmptyDict == [k \in {} |-> 0]

Put(dict, k, v) == [x \in (DOMAIN dict) \cup {k} |-> IF x = k THEN v ELSE dict[x]]

Get(dict, k, default) == IF k \in DOMAIN dict THEN dict[k] ELSE default

\* the dict _smart_field_extraction starts from
EmptyData ==
    [passport_type |-> None, country_code |-> None, passport_number |-> None,
     full_name |-> None, nationality |-> None, place_of_birth |-> None,
     place_of_issue |-> None, sex |-> None, date_of_birth |-> None,
     date_of_issue |-> None, date_of_expiry |-> None, national_id |-> None,
     confidence_scores |-> EmptyDict, extraction_method |-> EmptyDict]

-----------------------------------------------------------------------------
(* Confidence Model *)

\* the confidences of the table tokens that equal a word of the value
RECURSIVE MatchedConfidences(_, _, _)
MatchedConfidences(ocr_data, value_words, i) ==
    IF i > Len(ocr_data.text) THEN <<>>
    ELSE LET text == ocr_data.text[i]
             hit  == /\ text # ""
                     /\ InSeq(Upper(Strip(text)), value_words)
                     /\ i <= Len(ocr_data.conf)
                     /\ ocr_data.conf[i] > 0
         IN (IF hit THEN <<ocr_data.conf[i]>> ELSE <<>>)
            \o MatchedConfidences(ocr_data, value_words, i + 1)

RECURSIVE AllMatchedConfidences(_, _, _)
AllMatchedConfidences(table, keys, value_words) ==
    IF keys = {} THEN <<>>
    ELSE LET k == CHOOSE x \in keys : \A y \in keys : x <= y
         IN MatchedConfidences(table[k], value_words, 1)
            \o AllMatchedConfidences(table, keys \ {k}, value_words)

calculate_dynamic_confidence_of_first_image(extracted_value, base_confidence, table) ==
    IF ~Truthy(extracted_value) \/ DOMAIN table = {}
    THEN (base_confidence * 5) \div 10
    ELSE LET value_words     == Split(Upper(extracted_value))
             first           == CHOOSE x \in DOMAIN table : \A y \in DOMAIN table : x <= y
             ocr_confidences == MatchedConfidences(table[first], value_words, 1)
             n               == Len(ocr_confidences)
         IN IF n > 0
            THEN Min(ConfOne,
                     Pct(RoundHalfEven(6 * ConfOne * SumSeq(ocr_confidences)
                                         + 400 * base_confidence * n,
                                       1000 * n * Pct(1))))
            ELSE base_confidence

calculate_dynamic_confidence(extracted_value, base_confidence, table) ==
    IF ~Truthy(extracted_value) \/ DOMAIN table = {}
    THEN (base_confidence * 5) \div 10
    ELSE LET value_words     == Split(Upper(extracted_value))
             ocr_confidences == AllMatchedConfidences(table, DOMAIN table, value_words)
             n               == Len(ocr_confidences)
         IN IF n > 0
            THEN Min(ConfOne,
                     Pct(RoundHalfEven(6 * ConfOne * SumSeq(ocr_confidences)
                                         + 400 * base_confidence * n,
                                       1000 * n * Pct(1))))
            ELSE base_confidence

-----------------------------------------------------------------------------
(* Field Extractors *)

\* re.match(r'^[A-Z]?[0-9]{8,9}$', candidate); $ also matches before a final newline
PassportNumberMatch(candidate) ==
    LET n    == Len(candidate)
        ends == IF n > 0 /\ SubSeq(candidate, n, n) = "\n" THEN {n, n - 1} ELSE {n}
    IN \E e \in ends : \E k \in {0, 1} :
          /\ e - k \in {8, 9}
          /\ k = 1 => IsIn(SubSeq(candidate, 1, 1), UpperLetters)
          /\ \A i \in (k + 1)..e : IsIn(SubSeq(candidate, i, i), Digits)

NormalizePassportCandidate(raw) == Upper(Replace(Replace(raw, "O", "0"), " ", ""))

NoCandidate == [found |-> FALSE, candidate |-> None, source |-> None]

\* the loop of _extract_passport_number over the matches of one pattern
RECURSIVE ScanMatches(_, _, _)
ScanMatches(matches, source_name, m) ==
    IF m > Len(matches) THEN NoCandidate
    ELSE LET candidate == NormalizePassportCandidate(matches[m])
         IN IF PassportNumberMatch(candidate)
            THEN [found |-> TRUE, candidate |-> candidate, source |-> source_name]
            ELSE ScanMatches(matches, source_name, m + 1)

\* the loop over the patterns, on one observation
RECURSIVE ScanPatterns(_, _)
ScanPatterns(observation, p) ==
    IF p > NumPassportPatterns THEN NoCandidate
    ELSE LET r == ScanMatches(re_finditer_passport_number(p, observation[2]),
                              observation[1], 1)
         IN IF r.found THEN r ELSE ScanPatterns(observation, p + 1)

\* one pattern over the observations from i on
RECURSIVE ScanObservationsWith(_, _, _)
ScanObservationsWith(all_texts, p, i) ==
    IF i > Len(all_texts) THEN NoCandidate
    ELSE LET r == ScanMatches(re_finditer_passport_number(p, all_texts[i][2]),
                              all_texts[i][1], 1)
         IN IF r.found THEN r ELSE ScanObservationsWith(all_texts, p, i + 1)

RECURSIVE PatternMajorFrom(_, _)
PatternMajorFrom(all_texts, p) ==
    IF p > NumPassportPatterns THEN NoCandidate
    ELSE LET r == ScanObservationsWith(all_texts, p, 1)
         IN IF r.found THEN r ELSE PatternMajorFrom(all_texts, p + 1)

\* variant of the scan with the pattern loop outermost (sensitivity of C4)
ScanPatternMajor(all_texts, i) == PatternMajorFrom(all_texts, 1)

\* the three nested loops of _extract_passport_number, from observation i on:
\* the first candidate that passes the validation ends them
RECURSIVE ScanPassportNumber(_, _)
ScanPassportNumber(all_texts, i) ==
    IF i > Len(all_texts) THEN NoCandidate
    ELSE LET r == ScanPatterns(all_texts[i], 1)
         IN IF r.found THEN r ELSE ScanPassportNumber(all_texts, i + 1)

extract_passport_number(d, all_texts, table) ==
    LET r == ScanPassportNumber(all_texts, 1)
    IN IF r.found
       THEN [d EXCEPT
               !.passport_number = r.candidate,
               !.extraction_method = Put(@, "passport_number", r.source),
               !.confidence_scores =
                   Put(@, "passport_number",
                       calculate_dynamic_confidence(r.candidate, Pct(95), table))]
       ELSE d

\* '\n'.join([text for _, text in all_texts])
RECURSIVE JoinTexts(_, _)
JoinTexts(all_texts, i) ==
    IF i > Len(all_texts) THEN ""
    ELSE IF i = Len(all_texts) THEN all_texts[i][2]
    ELSE all_texts[i][2] \o "\n" \o JoinTexts(all_texts, i + 1)

combined_text(all_texts) == JoinTexts(all_texts, 1)

\* The matches of a pattern in the combined text are those in the texts it is
\* joined from, in order: no pattern of the catalog matches across the "\n"
\* that joins two texts of the model.
RECURSIVE CombinedNationalIdMatches(_, _, _)
CombinedNationalIdMatches(p, all_texts, i) ==
    IF i > Len(all_texts) THEN <<>>
    ELSE re_finditer_national_id(p, all_texts[i][2])
           \o CombinedNationalIdMatches(p, all_texts, i + 1)

RECURSIVE CombinedDates(_, _)
CombinedDates(all_texts, i) ==
    IF i > Len(all_texts) THEN <<>>
    ELSE re_findall_date(all_texts[i][2]) \o CombinedDates(all_texts, i + 1)

\* re.sub(r'[\s\.]', '-', s)
SeparatorsToHyphen(s) ==
    Concat([i \in 1..Len(s) |->
              IF IsSpace(SubSeq(s, i, i)) \/ SubSeq(s, i, i) = "."
              THEN "-" ELSE SubSeq(s, i, i)])

AllDigits(s, lo, hi) == \A i \in lo..hi : IsIn(SubSeq(s, i, i), Digits)

\* re.match(r'^\d{3}-\d{4}-\d{4,5}$', candidate)
NationalIdMatch(candidate) ==
    LET n    == Len(candidate)
        ends == IF n > 0 /\ SubSeq(candidate, n, n) = "\n" THEN {n, n - 1} ELSE {n}
    IN \E e \in ends :
          /\ e \in {13, 14}
          /\ AllDigits(candidate, 1, 3) /\ SubSeq(candidate, 4, 4) = "-"
          /\ AllDigits(candidate, 5, 8) /\ SubSeq(candidate, 9, 9) = "-"
          /\ AllDigits(candidate, 10, e)

RECURSIVE ScanNationalId(_, _, _)
ScanNationalId(all_texts, p, m) ==
    IF p > NumNationalIdPatterns THEN NoCandidate
    ELSE LET matches == CombinedNationalIdMatches(p, all_texts, 1)
         IN IF m > Len(matches) THEN ScanNationalId(all_texts, p + 1, 1)
            ELSE LET candidate == SeparatorsToHyphen(matches[m])
                 IN IF NationalIdMatch(candidate)
                    THEN [found |-> TRUE, candidate |-> candidate, source |-> None]
                    ELSE ScanNationalId(all_texts, p, m + 1)

extract_national_id(d, all_texts, table) ==
    IF combined_text(all_texts) = "" THEN d
    ELSE LET r == ScanNationalId(all_texts, 1, 1)
         IN IF r.found
            THEN [d EXCEPT
                    !.national_id = r.candidate,
                    !.confidence_scores =
                        Put(@, "national_id",
                            calculate_dynamic_confidence(r.candidate, Pct(90), table))]
            ELSE d

\* int() of a string of digits
RECURSIVE ParseInt(_)
ParseInt(s) ==
    IF s = "" THEN 0
    ELSE LET last == SubSeq(s, Len(s), Len(s))
             v == (CHOOSE j \in 1..10 : SubSeq(Digits, j, j) = last) - 1
         IN 10 * ParseInt(SubSeq(s, 1, Len(s) - 1)) + v

\* f"{n:02d}"
Pad2(n) == IF n < 10 THEN "0" \o ToString(n) ELSE ToString(n)

\* str.split(sep) for a one-character sep
RECURSIVE SplitOn(_, _)
SplitOn(s, sep) ==
    LET at == {i \in 1..Len(s) : SubSeq(s, i, i) = sep}
    IN IF at = {} THEN <<s>>
       ELSE LET i == CHOOSE j \in at : \A k \in at : j <= k
            IN <<SubSeq(s, 1, i - 1)>> \o SplitOn(SubSeq(s, i + 1, Len(s)), sep)

\* the loop of _extract_dates over all_dates: the valid dates, reformatted
RECURSIVE valid_dates(_)
valid_dates(all_dates) ==
    IF all_dates = <<>> THEN <<>>
    ELSE LET date_parts == Head(all_dates)
             date_str   == date_parts[1] \o "-" \o date_parts[2] \o "-" \o date_parts[3]
             parts      == SplitOn(date_str, "-")
             day        == ParseInt(parts[1])
             month      == ParseInt(parts[2])
             year       == ParseInt(parts[3])
             ok         == /\ Len(parts) = 3
                           /\ 1 <= day /\ day <= 31
                           /\ 1 <= month /\ month <= 12
                           /\ 1900 <= year /\ year <= 2100
         IN (IF ok THEN <<Pad2(day) \o "-" \o Pad2(month) \o "-" \o ToString(year)>>
             ELSE <<>>)
            \o valid_dates(Tail(all_dates))

all_dates(all_texts) == CombinedDates(all_texts, 1)

extract_dates(d, all_texts, table) ==
    IF combined_text(all_texts) = "" THEN d
    ELSE LET v  == valid_dates(all_dates(all_texts))
             d1 == IF Len(v) >= 1
                   THEN [d EXCEPT
                           !.date_of_birth = v[1],
                           !.confidence_scores =
                               Put(@, "date_of_birth",
                                   calculate_dynamic_confidence(v[1], Pct(85), table))]
                   ELSE d
             issue_or_expiry == IF Len(v) >= 2 THEN Tail(v) ELSE <<>>
             d2 == IF Len(v) >= 2
                   THEN [d1 EXCEPT
                           !.date_of_issue = issue_or_expiry[1],
                           !.confidence_scores =
                               Put(@, "date_of_issue",
                                   calculate_dynamic_confidence(issue_or_expiry[1],
                                                                Pct(80), table))]
                   ELSE d1
         IN IF Len(issue_or_expiry) > 1
            THEN [d2 EXCEPT
                    !.date_of_expiry = issue_or_expiry[Len(issue_or_expiry)],
                    !.confidence_scores =
                        Put(@, "date_of_expiry",
                            calculate_dynamic_confidence(
                                issue_or_expiry[Len(issue_or_expiry)], Pct(85), table))]
            ELSE d2

\* any(word in name for word in self.patterns.non_name_words)
HasStopWord(name) == \E w \in 1..Len(non_name_words) : Contains(name, non_name_words[w])

\* the candidates one text gives for one name pattern, from match m on
RECURSIVE NameCandidatesOfMatches(_, _, _)
NameCandidatesOfMatches(matches, source_name, m) ==
    IF m > Len(matches) THEN <<>>
    ELSE LET name == Upper(Strip(matches[m]))
         IN (IF ~HasStopWord(name) /\ 10 <= Len(name) /\ Len(name) <= 60
             THEN <<<<name, source_name>>>> ELSE <<>>)
            \o NameCandidatesOfMatches(matches, source_name, m + 1)

\* the loop of _extract_name over the patterns, on one observation
RECURSIVE NameCandidatesOfText(_, _)
NameCandidatesOfText(observation, p) ==
    IF p > NumNamePatterns THEN <<>>
    ELSE NameCandidatesOfMatches(re_findall_name(p, observation[2]), observation[1], 1)
         \o NameCandidatesOfText(observation, p + 1)

\* the loops of _extract_name, from observation i on
RECURSIVE name_candidates(_, _)
name_candidates(all_texts, i) ==
    IF i > Len(all_texts) THEN <<>>
    ELSE NameCandidatesOfText(all_texts[i], 1) \o name_candidates(all_texts, i + 1)

\* max(candidates, key=lambda x: len(x[0])): the first of the longest
\* variant keeping the last of the longest candidates (sensitivity of C9)
RECURSIVE MaxByLenLast(_, _, _)
MaxByLenLast(candidates, i, best) ==
    IF i > Len(candidates) THEN best
    ELSE MaxByLenLast(candidates, i + 1,
                      IF Len(candidates[i][1]) >= Len(best[1]) THEN candidates[i] ELSE best)

RECURSIVE MaxByLen(_, _, _)
MaxByLen(candidates, i, best) ==
    IF i > Len(candidates) THEN best
    ELSE MaxByLen(candidates, i + 1,
                  IF Len(candidates[i][1]) > Len(best[1]) THEN candidates[i] ELSE best)

extract_name(d, all_texts, table) ==
    LET candidates == name_candidates(all_texts, 1)
    IN IF candidates # <<>>
       THEN LET longest == MaxByLen(candidates, 2, candidates[1])
            IN [d EXCEPT
                  !.full_name = longest[1],
                  !.extraction_method = Put(@, "full_name", longest[2]),
                  !.confidence_scores =
                      Put(@, "full_name",
                          calculate_dynamic_confidence(longest[1], Pct(85), table))]
       ELSE d

\* re.search on the combined text: the match in the first text that has one
RECURSIVE SearchCombined(_, _, _)
SearchCombined(p, all_texts, i) ==
    IF i > Len(all_texts) THEN None
    ELSE IF re_search_sex(p, all_texts[i][2]) # None
    THEN re_search_sex(p, all_texts[i][2])
    ELSE SearchCombined(p, all_texts, i + 1)

\* variant that stops at the first pattern that matches, whatever its group
\* holds (sensitivity of C23)
ScanSexFirstMatchOnly(all_texts, p) ==
    LET matching  == {x \in p..NumSexPatterns : SearchCombined(x, all_texts, 1) # None}
        first     == CHOOSE x \in matching : \A y \in matching : x <= y
        value     == SearchCombined(first, all_texts, 1)
        sex_value == IF value # "" THEN Upper(SubSeq(value, 1, 1)) ELSE None
    IN IF matching # {} /\ sex_value \in {"M", "F"} THEN sex_value ELSE None

RECURSIVE ScanSex(_, _)
ScanSex(all_texts, p) ==
    IF p > NumSexPatterns THEN None
    ELSE LET value     == SearchCombined(p, all_texts, 1)
             sex_value == IF value # None /\ value # ""
                          THEN Upper(SubSeq(value, 1, 1)) ELSE None
         IN IF value # None /\ sex_value \in {"M", "F"}
            THEN sex_value
            ELSE ScanSex(all_texts, p + 1)

extract_sex(d, all_texts, table) ==
    IF combined_text(all_texts) = "" THEN d
    ELSE LET sex_value == ScanSex(all_texts, 1)
         IN IF sex_value # None
            THEN [d EXCEPT
                    !.sex = sex_value,
                    !.confidence_scores =
                        Put(@, "sex",
                            calculate_dynamic_confidence(sex_value, Pct(95), table)),
                    !.extraction_method = Put(@, "sex", "regex_search")]
            ELSE d

\* re.sub(r'\s*/\s*[\u0600-\u06FF\s]+', '', s) on a string without Arabic
\* letters (group 2 of a place pattern has none): every "/" that whitespace
\* follows is removed with the whitespace around it
RECURSIVE RemoveArabicPart(_, _)
RemoveArabicPart(s, i) ==
    IF i > Len(s) THEN ""
    ELSE LET rest  == {j \in i..Len(s) : ~IsSpace(SubSeq(s, j, j))}
             slash == IF rest = {} THEN 0 ELSE CHOOSE j \in rest : \A k \in rest : j <= k
             isCut == /\ slash # 0
                      /\ SubSeq(s, slash, slash) = "/"
                      /\ slash < Len(s)
                      /\ IsSpace(SubSeq(s, slash + 1, slash + 1))
             after == {j \in (slash + 1)..Len(s) : ~IsSpace(SubSeq(s, j, j))}
             next  == IF after = {} THEN Len(s) + 1
                      ELSE CHOOSE j \in after : \A k \in after : j <= k
         IN IF isCut THEN RemoveArabicPart(s, next)
            ELSE SubSeq(s, i, i) \o RemoveArabicPart(s, i + 1)

CleanPlaceCandidate(group2) ==
    Upper(Strip(FirstLine(RemoveArabicPart(Strip(group2), 1))))

RECURSIVE PlaceCandidatesOfMatches(_, _)
PlaceCandidatesOfMatches(matches, m) ==
    IF m > Len(matches) THEN <<>>
    ELSE LET place_candidate == CleanPlaceCandidate(matches[m])
         IN (IF /\ 3 < Len(place_candidate) /\ Len(place_candidate) < 25
                /\ ~InSeq(place_candidate, non_name_words)
             THEN <<place_candidate>> ELSE <<>>)
            \o PlaceCandidatesOfMatches(matches, m + 1)

\* the loop of _extract_place over the label patterns l..last, on one text
RECURSIVE PlaceCandidatesOfText(_, _, _)
PlaceCandidatesOfText(text, l, last) ==
    IF l > last THEN <<>>
    ELSE PlaceCandidatesOfMatches(re_finditer_place(l, text), 1)
         \o PlaceCandidatesOfText(text, l + 1, last)

\* the loops of _extract_place over the label patterns first..last, from
\* observation i on
RECURSIVE place_candidates(_, _, _, _)
place_candidates(all_texts, first, last, i) ==
    IF i > Len(all_texts) THEN <<>>
    ELSE PlaceCandidatesOfText(all_texts[i][2], first, last)
         \o place_candidates(all_texts, first, last, i + 1)

Count(candidates, c) == Cardinality({i \in 1..Len(candidates) : candidates[i] = c})

\* variant returning the last-seen of the most frequent (sensitivity of C8)
RECURSIVE MostCommonLast(_, _, _)
MostCommonLast(candidates, i, best) ==
    IF i > Len(candidates) THEN best
    ELSE MostCommonLast(candidates, i + 1,
                        IF Count(candidates, candidates[i]) >= Count(candidates, best)
                        THEN candidates[i] ELSE best)

\* Counter(candidates).most_common(1)[0][0]: the counter keeps first-seen order
\* and the first entry with the highest count is returned
RECURSIVE MostCommon(_, _, _)
MostCommon(candidates, i, best) ==
    IF i > Len(candidates) THEN best
    ELSE MostCommon(candidates, i + 1,
                    IF Count(candidates, candidates[i]) > Count(candidates, best)
                    THEN candidates[i] ELSE best)

extract_place(all_texts, first, last) ==
    LET candidates == place_candidates(all_texts, first, last, 1)
    IN IF candidates = <<>> THEN None
       ELSE MostCommon(candidates, 2, candidates[1])

extract_place_of_birth(d, all_texts, table) ==
    LET place == extract_place(all_texts, 1, 2)
    IN IF place # None
       THEN [d EXCEPT
               !.place_of_birth = place,
               !.extraction_method = Put(@, "place_of_birth", "regex_candidate_selection"),
               !.confidence_scores =
                   Put(@, "place_of_birth",
                       calculate_dynamic_confidence(place, Pct(85), table))]
       ELSE d

\* variant that stores the place of issue in both place fields (sensitivity of C22)
extract_place_of_issue_in_both_fields(d, all_texts, table) ==
    LET place == extract_place(all_texts, 3, 6)
    IN IF place # None
       THEN [d EXCEPT
               !.place_of_issue = place,
               !.place_of_birth = place,
               !.extraction_method = Put(@, "place_of_issue", "regex_candidate_selection"),
               !.confidence_scores =
                   Put(@, "place_of_issue",
                       calculate_dynamic_confidence(place, Pct(80), table))]
       ELSE d

extract_place_of_issue(d, all_texts, table) ==
    LET place == extract_place(all_texts, 3, 6)
    IN IF place # None
       THEN [d EXCEPT
               !.place_of_issue = place,
               !.extraction_method = Put(@, "place_of_issue", "regex_candidate_selection"),
               !.confidence_scores =
                   Put(@, "place_of_issue",
                       calculate_dynamic_confidence(place, Pct(80), table))]
       ELSE d

\* variant that records the confidence before the test of the indicators
\* (sensitivity of C13)
extract_nationality_unguarded(d, all_texts) ==
    IF combined_text(all_texts) = "" THEN d
    ELSE LET text_upper == Upper(combined_text(all_texts))
             d1 == [d EXCEPT !.confidence_scores = Put(@, "nationality", Pct(98))]
         IN IF \E k \in 1..Len(sudan_indicators) : Contains(text_upper, sudan_indicators[k])
            THEN [d1 EXCEPT !.nationality = "SUDANESE", !.country_code = "SDN",
                            !.passport_type = "PC"]
            ELSE d1

extract_nationality(d, all_texts) ==
    IF combined_text(all_texts) = "" THEN d
    ELSE LET text_upper == Upper(combined_text(all_texts))
         IN IF \E k \in 1..Len(sudan_indicators) : Contains(text_upper, sudan_indicators[k])
            THEN [d EXCEPT
                    !.nationality = "SUDANESE",
                    !.country_code = "SDN",
                    !.passport_type = "PC",
                    !.confidence_scores = Put(@, "nationality", Pct(98))]
            ELSE d

\* _smart_field_extraction as one function of the observation list
smart_field_extraction(all_texts, table) ==
    LET d1 == extract_passport_number(EmptyData, all_texts, table)
        d2 == extract_national_id(d1, all_texts, table)
        d3 == extract_dates(d2, all_texts, table)
        d4 == extract_name(d3, all_texts, table)
        d5 == extract_sex(d4, all_texts, table)
        d6 == extract_place_of_birth(d5, all_texts, table)
        d7 == extract_place_of_issue(d6, all_texts, table)
    IN extract_nationality(d7, all_texts)

-----------------------------------------------------------------------------
(* PassportPatterns.parse_date_string: patterns.py *)

\* re.sub(r'[chars]+', '-', s): every run of the characters becomes one hyphen
CollapseRuns(s, chars) ==
    Concat([i \in 1..Len(s) |->
              IF SubSeq(s, i, i) \notin chars THEN SubSeq(s, i, i)
              ELSE IF i > 1 /\ SubSeq(s, i - 1, i - 1) \in chars THEN ""
              ELSE "-"])

\* the length of the run of digits of s that starts at position i
RECURSIVE DigitRun(_, _)
DigitRun(s, i) ==
    IF i <= Len(s) /\ IsIn(SubSeq(s, i, i), Digits) THEN 1 + DigitRun(s, i + 1) ELSE 0

\* re.match of \d{first}-\d{1,2}-\d{last} at the start of s, where a count of
\* 12 stands for {1,2} and 4 for {4}: the three groups, <<>> when no match
MatchDateFormat(s, first, last) ==
    LET a  == DigitRun(s, 1)
        b  == DigitRun(s, a + 2)
        c  == DigitRun(s, a + b + 3)
        ok == /\ IF first = 12 THEN a \in {1, 2} ELSE a = 4
              /\ SubSeq(s, a + 1, a + 1) = "-"
              /\ b \in {1, 2}
              /\ SubSeq(s, a + b + 2, a + b + 2) = "-"
              /\ IF last = 12 THEN c >= 1 ELSE c >= 4
        n  == IF last = 12 THEN Min(c, 2) ELSE 4
    IN IF ok THEN <<SubSeq(s, 1, a), SubSeq(s, a + 2, a + b + 1),
                    SubSeq(s, a + b + 3, a + b + 2 + n)>>
       ELSE <<>>

\* what a call of parse_date_string ends with
DateReturned(value) == [raises |-> "", value |-> value]

DateRaised(exception) == [raises |-> exception, value |-> <<>>]

\* parse_date_string: the (day, month, year) it returns, <<>> for None.
\* PassportPatterns defines no validate_date, so the call at line 224 raises
\* AttributeError, which the except clause at line 227 does not catch
parse_date_string(date_str) ==
    LET cleaned == CollapseRuns(CollapseRuns(Strip(date_str), {" ", "\n", "\t", "\r", "."}),
                                {"/"})
    IN IF MatchDateFormat(cleaned, 12, 4) # <<>> THEN DateRaised("AttributeError")
       ELSE IF MatchDateFormat(cleaned, 4, 12) # <<>> THEN DateRaised("AttributeError")
       ELSE DateReturned(<<>>)

\* _extract_dates, line 278: the string of a valid date
FormatDate(day, month, year) ==
    Pad2(day) \o "-" \o Pad2(month) \o "-" \o ToString(year)

-----------------------------------------------------------------------------
(* MRZ Resolver: mrz_processor.py *)

\* the dict extract_mrz_data starts from
NoMrz ==
    [mrz_text |-> None, passport_number |-> None, nationality |-> None,
     date_of_birth |-> None, date_of_expiry |-> None, sex |-> None,
     names |-> None, document_type |-> None, issuing_country |-> None,
     mrz_confidence |-> 0, extraction_method |-> "none"]

\* int(s) of a two-character string: digits, with blanks around them or a
\* sign before them; Failed stands for ValueError
Failed == 0 - 1000

DigitValue(c) == (CHOOSE j \in 1..10 : SubSeq(Digits, j, j) = c) - 1

Int2(s) ==
    LET a == SubSeq(s, 1, 1)
        b == SubSeq(s, 2, 2)
    IN IF IsIn(a, Digits) /\ IsIn(b, Digits) THEN 10 * DigitValue(a) + DigitValue(b)
       ELSE IF IsSpace(a) /\ IsIn(b, Digits) THEN DigitValue(b)
       ELSE IF IsIn(a, Digits) /\ IsSpace(b) THEN DigitValue(a)
       ELSE IF a = "+" /\ IsIn(b, Digits) THEN DigitValue(b)
       ELSE IF a = "-" /\ IsIn(b, Digits) THEN 0 - DigitValue(b)
       ELSE Failed

\* _format_date: YYMMDD to DD-MM-YYYY, None when it cannot
format_date(date_str) ==
    IF ~Truthy(date_str) \/ Len(date_str) # 6 THEN None
    ELSE LET yy == Int2(SubSeq(date_str, 1, 2))
             mm == Int2(SubSeq(date_str, 3, 4))
             dd == Int2(SubSeq(date_str, 5, 6))
             yyyy == IF yy < 30 THEN 2000 + yy ELSE 1900 + yy
         IN IF Failed \in {yy, mm, dd} THEN None
            ELSE IF 1 <= mm /\ mm <= 12 /\ 1 <= dd /\ dd <= 31
                 THEN Pad2(dd) \o "-" \o Pad2(mm) \o "-" \o ToString(yyyy)
                 ELSE None

MrzConfidenceFields ==
    <<"passport_number", "nationality", "date_of_birth", "date_of_expiry", "sex", "names">>

\* variant without the cap at 1.0 (sensitivity of C17)
calculate_mrz_confidence_uncapped(m) ==
    ((Cardinality({i \in 1..Len(MrzConfidenceFields) : Truthy(m[MrzConfidenceFields[i]])})
        * ConfOne) \div Len(MrzConfidenceFields))
      + (IF Truthy(m.mrz_text) THEN Pct(20) ELSE 0)
      + (IF m.extraction_method = "fastmrz" THEN Pct(10) ELSE 0)

\* _calculate_mrz_confidence
calculate_mrz_confidence(m) ==
    LET filled_fields ==
            Cardinality({i \in 1..Len(MrzConfidenceFields) : Truthy(m[MrzConfidenceFields[i]])})
        base_confidence == (filled_fields * ConfOne) \div Len(MrzConfidenceFields)
        text_bonus == IF Truthy(m.mrz_text) THEN Pct(20) ELSE 0
        fastmrz_bonus == IF m.extraction_method = "fastmrz" THEN Pct(10) ELSE 0
    IN Min(ConfOne, base_confidence + text_bonus + fastmrz_bonus)

\* hasattr(mrz_result, name) is False
Absent == "<absent>"

HasAttr(obj, name) == obj[name] # Absent

\* dict.update
Update(dict, other) ==
    [k \in (DOMAIN dict) \cup (DOMAIN other) |->
        IF k \in DOMAIN other THEN other[k] ELSE dict[k]]

\* an optional assignment mrz_data[key] = value
SetIf(cond, dict, key, value) == IF cond THEN Put(dict, key, value) ELSE dict

\* an attribute of the decoder's result that is a number, not a str:
\* len(date_str) in _format_date raises TypeError, which _format_date does
\* not catch
NotAString == "<int>"

\* _extract_with_fastmrz; decode is what fastmrz.FastMRZ.process_image does.
\* An exception leaves the entries of mrz_data that were already written
extract_with_fastmrz(decode, m) ==
    IF decode.raises THEN [m EXCEPT !.extraction_method = "fastmrz_failed"]
    ELSE IF ~(decode.found /\ HasAttr(decode.attrs, "mrz_text")
                /\ Truthy(decode.attrs.mrz_text))
    THEN m
    ELSE LET r  == decode.attrs
             m1 == [m EXCEPT !.mrz_text = r.mrz_text, !.extraction_method = "fastmrz"]
             m2 == SetIf(HasAttr(r, "document_number"), m1, "passport_number",
                         r.document_number)
             m3 == SetIf(HasAttr(r, "nationality"), m2, "nationality", r.nationality)
             m4 == SetIf(HasAttr(r, "date_of_birth"), m3, "date_of_birth",
                         format_date(r.date_of_birth))
             m5 == SetIf(HasAttr(r, "date_of_expiry"), m4, "date_of_expiry",
                         format_date(r.date_of_expiry))
             m6 == SetIf(HasAttr(r, "sex"), m5, "sex", r.sex)
             m7 == IF HasAttr(r, "names") THEN Put(m6, "names", r.names)
                   ELSE IF HasAttr(r, "surname") /\ HasAttr(r, "given_names")
                        THEN Put(m6, "names", Strip(r.given_names \o " " \o r.surname))
                        ELSE m6
             m8 == SetIf(HasAttr(r, "document_type"), m7, "document_type",
                         r.document_type)
             m9 == SetIf(HasAttr(r, "issuing_country"), m8, "issuing_country",
                         r.issuing_country)
         IN IF r.date_of_birth = NotAString
            THEN [m3 EXCEPT !.extraction_method = "fastmrz_failed"]
            ELSE IF r.date_of_expiry = NotAString
            THEN [m4 EXCEPT !.extraction_method = "fastmrz_failed"]
            ELSE [m9 EXCEPT !.mrz_confidence = calculate_mrz_confidence(m9)]

\* '\n'.join(lines)
RECURSIVE JoinLines(_)
JoinLines(lines) ==
    IF lines = <<>> THEN ""
    ELSE IF Len(lines) = 1 THEN lines[1]
    ELSE lines[1] \o "\n" \o JoinLines(Tail(lines))

\* _extract_mrz_text; ocr is what image_to_string does on the MRZ region
extract_mrz_text(ocr) ==
    IF ocr.raises THEN None
    ELSE LET raw   == SplitOn(ocr.text, "\n")
             lines == SelectSeq([i \in 1..Len(raw) |-> Strip(raw[i])],
                                LAMBDA line : line # "")
             valid_lines == SelectSeq(lines, LAMBDA line : Len(line) >= 30)
         IN IF valid_lines # <<>> THEN JoinLines(valid_lines) ELSE None

\* str.split('<<')
RECURSIVE SplitOnFillers(_)
SplitOnFillers(s) ==
    LET at == {i \in 1..(Len(s) - 1) : SubSeq(s, i, i + 1) = "<<"}
    IN IF at = {} THEN <<s>>
       ELSE LET i == CHOOSE j \in at : \A k \in at : j <= k
            IN <<SubSeq(s, 1, i - 1)>> \o SplitOnFillers(SubSeq(s, i + 2, Len(s)))

\* the line-1 part of _parse_mrz_text
parse_line1(line1, parsed) ==
    IF SubSeq(line1, 1, 2) # "P<" THEN parsed
    ELSE LET p1 == SetIf(Len(line1) >= 5
                           /\ \A i \in 3..5 : IsIn(SubSeq(line1, i, i), UpperLetters),
                         parsed, "issuing_country", SubSeq(line1, 3, 5))
             name_parts == SplitOnFillers(SubSeq(line1, 6, Len(line1)))
         IN IF Len(name_parts) >= 2
            THEN LET surname     == Strip(Replace(name_parts[1], "<", " "))
                     given_names == Strip(Replace(name_parts[2], "<", " "))
                 IN Put(p1, "names", Strip(given_names \o " " \o surname))
            ELSE p1

\* variant that reads the dates and the sex one position to the left
\* (sensitivity of C24)
parse_line2_shifted(line2, parsed) ==
    IF Len(line2) < 44 THEN parsed
    ELSE LET doc_num     == Replace(SubSeq(line2, 1, 9), "<", "")
             birth_date  == SubSeq(line2, 13, 18)
             sex         == SubSeq(line2, 20, 20)
             expiry_date == SubSeq(line2, 21, 26)
             p1 == SetIf(doc_num # "", parsed, "passport_number", doc_num)
             p2 == SetIf(birth_date # "<<<<<<", p1, "date_of_birth",
                         format_date(birth_date))
             p3 == SetIf(sex \in {"M", "F"}, p2, "sex", sex)
         IN SetIf(expiry_date # "<<<<<<", p3, "date_of_expiry", format_date(expiry_date))

\* the line-2 part of _parse_mrz_text
parse_line2(line2, parsed) ==
    IF Len(line2) < 44 THEN parsed
    ELSE LET doc_num     == Replace(SubSeq(line2, 1, 9), "<", "")
             birth_date  == SubSeq(line2, 14, 19)
             sex         == SubSeq(line2, 21, 21)
             expiry_date == SubSeq(line2, 22, 27)
             p1 == SetIf(doc_num # "", parsed, "passport_number", doc_num)
             p2 == SetIf(birth_date # "<<<<<<", p1, "date_of_birth",
                         format_date(birth_date))
             p3 == SetIf(sex \in {"M", "F"}, p2, "sex", sex)
         IN SetIf(expiry_date # "<<<<<<", p3, "date_of_expiry", format_date(expiry_date))

\* _parse_mrz_text
parse_mrz_text(mrz_text) ==
    LET lines == SplitOn(mrz_text, "\n")
    IN IF Len(lines) >= 2
       THEN parse_line2(lines[2], parse_line1(lines[1], EmptyDict))
       ELSE EmptyDict

\* _extract_with_fallback; region: _find_mrz_region found text contours
extract_with_fallback(region, ocr, m) ==
    IF ~region THEN m
    ELSE LET mrz_text == extract_mrz_text(ocr)
         IN IF ~Truthy(mrz_text) THEN m
            ELSE LET m1 == Update([m EXCEPT !.mrz_text = mrz_text,
                                            !.extraction_method = "fallback_ocr"],
                                  parse_mrz_text(mrz_text))
                 IN [m1 EXCEPT !.mrz_confidence = calculate_mrz_confidence(m1)]

\* a decoder extract_mrz_data called, and the MRZ text in mrz_data when it
\* returned
DecoderCall(decoder, m) == [decoder |-> decoder, mrz_text |-> m.mrz_text]

\* variant whose test for the fallback is on the extraction method, not on
\* the MRZ text (sensitivity of C18)
extract_mrz_data_steps_by_method(zone, fastmrz_available) ==
    LET m == IF fastmrz_available THEN extract_with_fastmrz(zone.fastmrz, NoMrz)
             ELSE NoMrz
        tried == IF fastmrz_available THEN <<DecoderCall("_extract_with_fastmrz", m)>>
                 ELSE <<>>
        fallback == extract_with_fallback(zone.region, zone.ocr, m)
    IN IF m.extraction_method # "fastmrz"
       THEN [decoders |-> tried \o <<DecoderCall("_extract_with_fallback", fallback)>>,
             mrz_data |-> fallback]
       ELSE [decoders |-> tried, mrz_data |-> m]

\* extract_mrz_data on an image whose MRZ zone behaves as zone says: the
\* decoders it calls, in order, and the dict it returns
extract_mrz_data_steps(zone, fastmrz_available) ==
    LET m == IF fastmrz_available THEN extract_with_fastmrz(zone.fastmrz, NoMrz)
             ELSE NoMrz
        tried == IF fastmrz_available THEN <<DecoderCall("_extract_with_fastmrz", m)>>
                 ELSE <<>>
        fallback == extract_with_fallback(zone.region, zone.ocr, m)
    IN IF ~Truthy(m.mrz_text)
       THEN [decoders |-> tried \o <<DecoderCall("_extract_with_fallback", fallback)>>,
             mrz_data |-> fallback]
       ELSE [decoders |-> tried, mrz_data |-> m]

extract_mrz_data(zone, fastmrz_available) ==
    extract_mrz_data_steps(zone, fastmrz_available).mrz_data

field_mapping ==
    << <<"passport_number", "passport_number">>, <<"nationality", "nationality">>,
       <<"date_of_birth", "date_of_birth">>, <<"date_of_expiry", "date_of_expiry">>,
       <<"sex", "sex">>, <<"names", "full_name">>, <<"issuing_country", "country_code">> >>

\* variant in which a value of the MRZ always wins (sensitivity of C27)
OverridesAlways(current_value, current_confidence, mrz_confidence) == TRUE

\* variant that also overrides on equal confidence (sensitivity of C3)
OverridesOnTie(current_value, current_confidence, mrz_confidence) ==
    ~Truthy(current_value) \/ mrz_confidence >= current_confidence

\* the test of enhance_extraction_with_mrz, line 361
Overrides(current_value, current_confidence, mrz_confidence) ==
    ~Truthy(current_value) \/ mrz_confidence > current_confidence

\* the loop of enhance_extraction_with_mrz from mapping i on
RECURSIVE EnhanceFrom(_, _, _)
EnhanceFrom(enhanced_data, m, i) ==
    IF i > Len(field_mapping) THEN enhanced_data
    ELSE LET mrz_field     == field_mapping[i][1]
             extract_field == field_mapping[i][2]
             mrz_value     == m[mrz_field]
             current_value == enhanced_data[extract_field]
             current_confidence == Get(enhanced_data.confidence_scores, extract_field, 0)
         IN IF Truthy(mrz_value)
               /\ Overrides(current_value, current_confidence, m.mrz_confidence)
            THEN EnhanceFrom(
                   [enhanced_data EXCEPT
                      ![extract_field] = mrz_value,
                      !.confidence_scores = Put(@, extract_field, m.mrz_confidence),
                      !.extraction_method = Put(@, extract_field, m.extraction_method)],
                   m, i + 1)
            ELSE EnhanceFrom(enhanced_data, m, i + 1)

\* enhance_extraction_with_mrz: the record it returns
enhance_extraction_with_mrz(extracted_data, m) ==
    Update(EnhanceFrom(extracted_data, m, 1),
           [mrz_text |-> m.mrz_text, mrz_confidence |-> m.mrz_confidence,
            mrz_extraction_method |-> m.extraction_method])

\* extracted_data.copy() is shallow: the two nested dicts of the draft are the
\* ones the loop writes to, so the draft sees the writes
DraftAfterEnhance(extracted_data, m) ==
    LET enhanced_data == EnhanceFrom(extracted_data, m, 1)
    IN [extracted_data EXCEPT
          !.confidence_scores = enhanced_data.confidence_scores,
          !.extraction_method = enhanced_data.extraction_method]

important_fields ==
    <<"passport_number", "full_name", "nationality", "date_of_birth", "date_of_issue",
      "date_of_expiry", "sex", "place_of_birth", "place_of_issue">>

CountFilled(d, fields) == Cardinality({i \in 1..Len(fields) : Truthy(d[fields[i]])})

\* variant that truncates instead of rounding (sensitivity of C10)
calculate_score_truncated(d) ==
    (CountFilled(d, important_fields) * 100 * 100) \div Len(important_fields)

\* _calculate_score, in hundredths of a percent point
calculate_score(d) ==
    RoundHalfEven(CountFilled(d, important_fields) * 100 * 100, Len(important_fields))

summary_fields ==
    <<"passport_number", "full_name", "nationality", "national_id", "date_of_birth",
      "date_of_issue", "date_of_expiry", "sex", "place_of_birth", "place_of_issue",
      "country_code">>

\* variant that counts over the fields of the score (sensitivity of C15)
generate_summary_of_score_fields(d) ==
    ToString(CountFilled(d, important_fields)) \o "/" \o ToString(Len(important_fields))
        \o " fields extracted"

\* _generate_summary
generate_summary(d) ==
    ToString(CountFilled(d, summary_fields)) \o "/" \o ToString(Len(summary_fields))
        \o " fields extracted"

-----------------------------------------------------------------------------
(* What the primary decoder and the fallback OCR do on the MRZ zones of the model *)

\* decoder: Nothing; fallback OCR: Empty
ZoneNone ==
    [fastmrz |->
       [raises |-> FALSE, found |-> FALSE,
        attrs |->
          [mrz_text |-> Absent, document_number |-> Absent,
           nationality |-> Absent, date_of_birth |-> Absent,
           date_of_expiry |-> Absent, sex |-> Absent,
           names |-> Absent, surname |-> Absent,
           given_names |-> Absent, document_type |-> Absent,
           issuing_country |-> Absent]],
     region |-> FALSE,
     ocr |-> Returned(" \n")]

\* decoder: Full; fallback OCR: TD3
ZoneDecoded ==
    [fastmrz |->
       [raises |-> FALSE, found |-> TRUE,
        attrs |->
          [mrz_text |-> "P<SDNAHMED<<ALI<HASSAN<<<<<<<<<<<<<<<<<<<<<<\nP123456780SDN9002011M2506145<<<<<<<<<<<<<<00", document_number |-> "P12345678",
           nationality |-> "SDN", date_of_birth |-> "900201",
           date_of_expiry |-> "250614", sex |-> "M",
           names |-> Absent, surname |-> "AHMED",
           given_names |-> "ALI HASSAN", document_type |-> "P",
           issuing_country |-> "SDN"]],
     region |-> TRUE,
     ocr |-> Returned("P<SDNAHMED<<ALI<HASSAN<<<<<<<<<<<<<<<<<<<<<<\nP123456780SDN9002011M2506145<<<<<<<<<<<<<<00\n")]

\* decoder: Partial; fallback OCR: Empty
ZonePartial ==
    [fastmrz |->
       [raises |-> FALSE, found |-> TRUE,
        attrs |->
          [mrz_text |-> "P<SDN", document_number |-> "L898902C3",
           nationality |-> Absent, date_of_birth |-> "29-131",
           date_of_expiry |-> None, sex |-> "F",
           names |-> None, surname |-> Absent,
           given_names |-> Absent, document_type |-> Absent,
           issuing_country |-> Absent]],
     region |-> FALSE,
     ocr |-> Returned(" \n")]

\* decoder: Raises; fallback OCR: TD3
ZoneFallback ==
    [fastmrz |->
       [raises |-> TRUE, found |-> FALSE,
        attrs |->
          [mrz_text |-> Absent, document_number |-> Absent,
           nationality |-> Absent, date_of_birth |-> Absent,
           date_of_expiry |-> Absent, sex |-> Absent,
           names |-> Absent, surname |-> Absent,
           given_names |-> Absent, document_type |-> Absent,
           issuing_country |-> Absent]],
     region |-> TRUE,
     ocr |-> Returned("P<SDNAHMED<<ALI<HASSAN<<<<<<<<<<<<<<<<<<<<<<\nP123456780SDN9002011M2506145<<<<<<<<<<<<<<00\n")]

\* decoder: NoText; fallback OCR: ForeignNumber
ZoneForeignNumber ==
    [fastmrz |->
       [raises |-> FALSE, found |-> TRUE,
        attrs |->
          [mrz_text |-> "", document_number |-> "P12345678",
           nationality |-> Absent, date_of_birth |-> Absent,
           date_of_expiry |-> Absent, sex |-> Absent,
           names |-> Absent, surname |-> Absent,
           given_names |-> Absent, document_type |-> Absent,
           issuing_country |-> Absent]],
     region |-> TRUE,
     ocr |-> Returned(" P<SDNAHMED<<ALI<HASSAN<<<<<<<<<<<<<<<<<<<<<< \n\nSUDAN\nAB12345670SDN<<<<<<1M<<<<<<5<<<<<<<<<<<<<<00\n")]

\* decoder: Nothing; fallback OCR: ShortLine2
ZoneShortLine2 ==
    [fastmrz |->
       [raises |-> FALSE, found |-> FALSE,
        attrs |->
          [mrz_text |-> Absent, document_number |-> Absent,
           nationality |-> Absent, date_of_birth |-> Absent,
           date_of_expiry |-> Absent, sex |-> Absent,
           names |-> Absent, surname |-> Absent,
           given_names |-> Absent, document_type |-> Absent,
           issuing_country |-> Absent]],
     region |-> TRUE,
     ocr |-> Returned("PCSDNAHMED<<ALI<HASSAN<<<<<<<<<<<<<<<<<<<<<<\nP123456780SDN9002011F2506145<<<<<<<<\n")]

\* decoder: Raises; fallback OCR: BadDates
ZoneBadDates ==
    [fastmrz |->
       [raises |-> TRUE, found |-> FALSE,
        attrs |->
          [mrz_text |-> Absent, document_number |-> Absent,
           nationality |-> Absent, date_of_birth |-> Absent,
           date_of_expiry |-> Absent, sex |-> Absent,
           names |-> Absent, surname |-> Absent,
           given_names |-> Absent, document_type |-> Absent,
           issuing_country |-> Absent]],
     region |-> TRUE,
     ocr |-> Returned("PCSDNAHMED<<ALI<HASSAN<<<<<<<<<<<<<<<<<<<<<<\n<<<<<<<<<0SDN9013011<2 06145<<<<<<<<<<<<<<00\n")]

\* decoder: Nothing; fallback OCR: OneLine
ZoneOneLine ==
    [fastmrz |->
       [raises |-> FALSE, found |-> FALSE,
        attrs |->
          [mrz_text |-> Absent, document_number |-> Absent,
           nationality |-> Absent, date_of_birth |-> Absent,
           date_of_expiry |-> Absent, sex |-> Absent,
           names |-> Absent, surname |-> Absent,
           given_names |-> Absent, document_type |-> Absent,
           issuing_country |-> Absent]],
     region |-> TRUE,
     ocr |-> Returned("P<SDNAHMED<<ALI<HASSAN<<<<<<<<<<<<<<<<<<<<<<\n")]

\* decoder: Raises; fallback OCR: Raises
ZoneUnreadable ==
    [fastmrz |->
       [raises |-> TRUE, found |-> FALSE,
        attrs |->
          [mrz_text |-> Absent, document_number |-> Absent,
           nationality |-> Absent, date_of_birth |-> Absent,
           date_of_expiry |-> Absent, sex |-> Absent,
           names |-> Absent, surname |-> Absent,
           given_names |-> Absent, document_type |-> Absent,
           issuing_country |-> Absent]],
     region |-> TRUE,
     ocr |-> Raised]

\* decoder: Full; fallback OCR: Empty
ZoneBlank ==
    [fastmrz |->
       [raises |-> FALSE, found |-> TRUE,
        attrs |->
          [mrz_text |-> "P<SDNAHMED<<ALI<HASSAN<<<<<<<<<<<<<<<<<<<<<<\nP123456780SDN9002011M2506145<<<<<<<<<<<<<<00", document_number |-> "P12345678",
           nationality |-> "SDN", date_of_birth |-> "900201",
           date_of_expiry |-> "250614", sex |-> "M",
           names |-> Absent, surname |-> "AHMED",
           given_names |-> "ALI HASSAN", document_type |-> "P",
           issuing_country |-> "SDN"]],
     region |-> TRUE,
     ocr |-> Returned(" \n")]

\* decoder: NumericDates; fallback OCR: TD3
ZoneNumericDates ==
    [fastmrz |->
       [raises |-> FALSE, found |-> TRUE,
        attrs |->
          [mrz_text |-> "P<SDNAHMED<<ALI<HASSAN<<<<<<<<<<<<<<<<<<<<<<\nP123456780SDN9002011M2506145<<<<<<<<<<<<<<00", document_number |-> "P12345678",
           nationality |-> "SDN", date_of_birth |-> NotAString,
           date_of_expiry |-> NotAString, sex |-> "M",
           names |-> "ALI HASSAN AHMED", surname |-> Absent,
           given_names |-> Absent, document_type |-> Absent,
           issuing_country |-> Absent]],
     region |-> TRUE,
     ocr |-> Returned("P<SDNAHMED<<ALI<HASSAN<<<<<<<<<<<<<<<<<<<<<<\nP123456780SDN9002011M2506145<<<<<<<<<<<<<<00\n")]

MrzZones ==
    {ZoneNone, ZoneDecoded, ZonePartial, ZoneFallback, ZoneForeignNumber, ZoneShortLine2, ZoneBadDates, ZoneOneLine, ZoneUnreadable, ZoneBlank, ZoneNumericDates}

-----------------------------------------------------------------------------
(* security.py, secure_app.py: tokens, the rate limiter, the guarded       *)
(* endpoints.  Time is counted in ticks of the server's clock; a JWT is    *)
(* the record of its claims and of the key it is signed with (the HS256    *)
(* signature itself is the library's).                                     *)

\* SecurityConfig: the token lifetime and the rate limit, scaled to ticks
jwt_expiry_hours == 2

rate_limit_requests == 2

rate_limit_window == 2

\* the last tick of the clock
MaxNow == 3

jwt_secret == "jwt_secret"

\* request.remote_addr of the clients
RemoteAddrs == {"10.0.0.1"}

\* werkzeug's generate_password_hash and check_password_hash
generate_password_hash(password) == <<"pbkdf2:sha256", password>>

check_password_hash(pwhash, password) == pwhash = generate_password_hash(password)

\* SecurityManager._load_users, with ADMIN_PASSWORD unset
users ==
    [admin |-> [password_hash |-> generate_password_hash("admin123"),
                role |-> "admin",
                permissions |-> {"read", "write", "admin"}]]

\* an Optional[Dict]: <<>> is None, <<d>> is the dict d
authenticate_user(username, password) ==
    IF username \notin DOMAIN users THEN <<>>
    ELSE IF check_password_hash(users[username].password_hash, password)
         THEN <<users[username]>>
         ELSE <<>>

create_token(username, user_data, utcnow) ==
    [username |-> username,
     role |-> user_data.role,
     permissions |-> user_data.permissions,
     exp |-> utcnow + jwt_expiry_hours,
     iat |-> utcnow,
     signed_with |-> jwt_secret]

\* jwt.decode(token, key, algorithms=['HS256']): the exception it raises, "" if none
jwt_decode_raises(token, key, utcnow) ==
    IF token.signed_with # key THEN "InvalidTokenError"
    ELSE IF token.exp <= utcnow THEN "ExpiredSignatureError"
    ELSE ""

\* the payload of a decoded token
Payload(token) ==
    [username |-> token.username, role |-> token.role,
     permissions |-> token.permissions, exp |-> token.exp, iat |-> token.iat]

verify_token(token, utcnow) ==
    IF jwt_decode_raises(token, jwt_secret, utcnow) # "" THEN <<>>
    ELSE <<Payload(token)>>

\* a token no key of the server signed, and the token of an empty header value
ForgedToken ==
    [username |-> "admin", role |-> "admin", permissions |-> {"read", "write", "admin"},
     exp |-> MaxNow + jwt_expiry_hours + 1, iat |-> 0, signed_with |-> "attacker_secret"]

NoToken ==
    [username |-> "", role |-> "", permissions |-> {}, exp |-> 0, iat |-> 0,
     signed_with |-> ""]

\* the Authorization header of a request; scheme "" is a request without the header
NoAuthorization == [scheme |-> "", token |-> NoToken]

Bearer(token) == [scheme |-> "Bearer", token |-> token]

\* what a decorator decided: status 0 lets the request through to the wrapped function
Through(user) == [status |-> 0, error |-> "", user |-> user]

Rejected(status, error) == [status |-> status, error |-> error, user |-> <<>>]

\* require_auth: g.user of the request, or the response that ends it
require_auth(authorization, utcnow) ==
    IF authorization.scheme = "" THEN Rejected(401, "No authorization header")
    ELSE IF authorization.scheme = "Bearer" THEN
        LET user_data == verify_token(authorization.token, utcnow)
        IN  IF user_data = <<>> THEN Rejected(401, "Invalid or expired token")
            ELSE Through(user_data)
    ELSE Rejected(401, "Invalid authorization format")

\* require_permission(permission), applied after require_auth let the request through
require_permission(permission, g_user) ==
    IF g_user = <<>> THEN Rejected(401, "Authentication required")
    ELSE IF permission \notin g_user[1].permissions
         THEN Rejected(403, "Insufficient permissions")
         ELSE Through(g_user)

\* the entries of one identifier: <<timestamp, count>>
RECURSIVE SumCounts(_)
SumCounts(entries) ==
    IF entries = <<>> THEN 0 ELSE Head(entries)[2] + SumCounts(Tail(entries))

InWindow(entry, window_start) == entry[1] > window_start

RECURSIVE CleanOld(_, _)
CleanOld(entries, window_start) ==
    IF entries = <<>> THEN <<>>
    ELSE IF InWindow(Head(entries), window_start)
         THEN <<Head(entries)>> \o CleanOld(Tail(entries), window_start)
         ELSE CleanOld(Tail(entries), window_start)

\* variant that refuses only above the limit (sensitivity of C28)
is_allowed_above_limit(requests, identifier, time) ==
    LET window_start == time - rate_limit_window
        cleaned == IF identifier \in DOMAIN requests
                   THEN Put(requests, identifier, CleanOld(requests[identifier], window_start))
                   ELSE requests
        current_count == SumCounts(Get(cleaned, identifier, <<>>))
    IN  IF current_count > rate_limit_requests
        THEN [returned |-> FALSE, requests |-> cleaned]
        ELSE [returned |-> TRUE,
              requests |-> Put(cleaned, identifier,
                               Append(Get(cleaned, identifier, <<>>), <<time, 1>>))]

\* RateLimiter.is_allowed: the value returned and self.requests after the call
is_allowed(requests, identifier, time) ==
    LET window_start == time - rate_limit_window
        cleaned == IF identifier \in DOMAIN requests
                   THEN Put(requests, identifier, CleanOld(requests[identifier], window_start))
                   ELSE requests
        current_count == SumCounts(Get(cleaned, identifier, <<>>))
    IN  IF current_count >= rate_limit_requests
        THEN [returned |-> FALSE, requests |-> cleaned]
        ELSE [returned |-> TRUE,
              requests |-> Put(cleaned, identifier,
                               Append(Get(cleaned, identifier, <<>>), <<time, 1>>))]

\* RateLimiter.get_remaining
get_remaining(requests, identifier, time) ==
    LET window_start == time - rate_limit_window
    IN  IF identifier \notin DOMAIN requests THEN rate_limit_requests
        ELSE LET current_count == SumCounts(CleanOld(requests[identifier], window_start))
             IN  IF rate_limit_requests - current_count > 0
                 THEN rate_limit_requests - current_count ELSE 0

\* the request threads of the server (app.run(threaded=True))
Threads == {1, 2}

\* a thread that is not inside is_allowed
NoFrame == [pc |-> "idle", identifier |-> "", now |-> 0, entries |-> <<>>,
            current_count |-> 0]

\* a fraction in lowest terms; average_accuracy is computed exactly
RECURSIVE Gcd(_, _)
Gcd(a, b) == IF b = 0 THEN a ELSE Gcd(b, a % b)

Rational(num, den) == [num |-> num \div Gcd(num, den), den |-> den \div Gcd(num, den)]

\* log_security_event: the entry written, without its timestamp and user agent
LogEntry(event_type, ip, username) ==
    [event_type |-> event_type, ip |-> ip, username |-> username]

\* a request the server answered
Response(endpoint, remote_addr, authorization, status, handler_ran) ==
    [endpoint |-> endpoint, remote_addr |-> remote_addr, authorization |-> authorization,
     status |-> status, handler_ran |-> handler_ran]

NoResponse == Response("", "", NoAuthorization, 0, FALSE)

\* the server after init_security(SECURITY_CONFIG['security']), before any request
ServerInit ==
    /\ now = 0
    /\ rate_limiter_requests = EmptyDict
    /\ security_log = {}
    /\ issued_tokens = {}
    /\ logged_out_tokens = {}
    /\ response = NoResponse
    /\ is_allowed_frames = [thread \in Threads |-> NoFrame]
    /\ is_allowed_returns = <<>>
    /\ stats = [total_requests |-> 0, successful_extractions |-> 0,
                failed_extractions |-> 0, face_verifications |-> 0,
                successful_verifications |-> 0, security_events |-> 0,
                average_accuracy |-> Rational(0, 1)]
    /\ counted_scores = <<>>

\* the JSON bodies sent to /auth/login; username "" is a body without the two keys
LoginBodies ==
    {[username |-> u, password |-> p] : u \in {"admin", "guest"}, p \in {"admin123", "wrong"}}
        \cup {[username |-> "", password |-> ""]}

\* the Authorization headers a client can send: none, another scheme, a token it
\* was given, a token it made itself
Authorizations ==
    {NoAuthorization, [scheme |-> "Basic", token |-> NoToken], Bearer(NoToken),
     Bearer(ForgedToken)} \cup {Bearer(t) : t \in issued_tokens}

\* time passes between requests
Tick ==
    /\ now < MaxNow
    /\ now' = now + 1
    /\ UNCHANGED <<rate_limiter_requests, security_log, issued_tokens, logged_out_tokens,
                   response, extractor_vars, service_vars>>

\* POST /auth/login: @rate_limit, then the handler
login(remote_addr, body) ==
    LET limit == is_allowed(rate_limiter_requests, remote_addr, now)
        user_data == authenticate_user(body.username, body.password)
        token == create_token(body.username, user_data[1], now)
    IN  /\ rate_limiter_requests' = limit.requests
        /\ IF ~limit.returned
           THEN /\ response' = Response("login", remote_addr, NoAuthorization, 429, FALSE)
                /\ UNCHANGED <<security_log, issued_tokens>>
           ELSE IF body.username = ""
           THEN /\ response' = Response("login", remote_addr, NoAuthorization, 400, TRUE)
                /\ UNCHANGED <<security_log, issued_tokens>>
           ELSE IF user_data = <<>>
           THEN /\ response' = Response("login", remote_addr, NoAuthorization, 401, TRUE)
                /\ security_log' = security_log
                        \cup {LogEntry("login_failed", remote_addr, body.username)}
                /\ UNCHANGED issued_tokens
           ELSE /\ response' = Response("login", remote_addr, NoAuthorization, 200, TRUE)
                /\ security_log' = security_log
                        \cup {LogEntry("login_success", remote_addr, body.username)}
                /\ issued_tokens' = issued_tokens \cup {token}
        /\ UNCHANGED <<now, logged_out_tokens, extractor_vars, service_vars>>

\* POST /auth/logout: @require_auth, then the handler, which writes a log entry
logout(remote_addr, authorization) ==
    LET auth == require_auth(authorization, now)
    IN  /\ IF auth.status # 0
           THEN /\ response' = Response("logout", remote_addr, authorization,
                                        auth.status, FALSE)
                /\ UNCHANGED <<security_log, logged_out_tokens>>
           ELSE /\ response' = Response("logout", remote_addr, authorization, 200, TRUE)
                /\ security_log' = security_log
                        \cup {LogEntry("logout", remote_addr, auth.user[1].username)}
                /\ logged_out_tokens' = logged_out_tokens \cup {authorization.token}
        /\ UNCHANGED <<now, rate_limiter_requests, issued_tokens, extractor_vars, service_vars>>

\* the two admin endpoints: @require_auth, @require_permission('admin'), then a
\* handler that reads and changes nothing of the server's state
AdminEndpoint(endpoint, remote_addr, authorization) ==
    LET auth == require_auth(authorization, now)
        perm == require_permission("admin", auth.user)
    IN  /\ response' =
              IF auth.status # 0
              THEN Response(endpoint, remote_addr, authorization, auth.status, FALSE)
              ELSE IF perm.status # 0
              THEN Response(endpoint, remote_addr, authorization, perm.status, FALSE)
              ELSE Response(endpoint, remote_addr, authorization, 200, TRUE)
        /\ UNCHANGED <<now, rate_limiter_requests, security_log, issued_tokens,
                       logged_out_tokens, extractor_vars, service_vars>>

\* GET /admin/stats
admin_stats(remote_addr, authorization) ==
    AdminEndpoint("admin_stats", remote_addr, authorization)

\* GET /admin/security-logs
admin_security_logs(remote_addr, authorization) ==
    AdminEndpoint("admin_security_logs", remote_addr, authorization)

-----------------------------------------------------------------------------
(* The rate limiter on its own.  is_allowed_returns keeps, for every call  *)
(* that returned, its identifier, the time it read, the value returned and *)
(* what get_remaining gave at the same instant.                            *)

\* the identifiers the limiter is called with (request.remote_addr)
Identifiers == {"10.0.0.1", "10.0.0.2"}

\* the number of calls of is_allowed followed
MaxCalls == 6

IsAllowedReturn(identifier, time, returned, remaining) ==
    [identifier |-> identifier, time |-> time, returned |-> returned,
     remaining |-> remaining]

\* a call of is_allowed made while no other call is in progress
Do_is_allowed(identifier) ==
    LET limit == is_allowed(rate_limiter_requests, identifier, now)
    IN  /\ Len(is_allowed_returns) < MaxCalls
        /\ \A thread \in Threads : is_allowed_frames[thread] = NoFrame
        /\ rate_limiter_requests' = limit.requests
        /\ is_allowed_returns' =
              Append(is_allowed_returns,
                     IsAllowedReturn(identifier, now, limit.returned,
                              get_remaining(rate_limiter_requests, identifier, now)))
        /\ UNCHANGED <<now, security_log, issued_tokens, logged_out_tokens, response,
                       is_allowed_frames, stats, counted_scores, extractor_vars>>

-----------------------------------------------------------------------------
(* is_allowed called from request threads: the interpreter can switch      *)
(* threads between any two of its steps, and is_allowed takes no lock      *)

\* the number of calls of is_allowed the threads make
MaxThreadCalls == 4

CallsStarted ==
    Len(is_allowed_returns)
        + Cardinality({thread \in Threads : is_allowed_frames[thread] # NoFrame})

\* lines 66-67: now = time.time()
is_allowed_enter(thread, identifier) ==
    /\ is_allowed_frames[thread] = NoFrame
    /\ CallsStarted < MaxThreadCalls
    /\ is_allowed_frames' =
          [is_allowed_frames EXCEPT
             ![thread] = [NoFrame EXCEPT !.pc = "clean", !.identifier = identifier,
                                         !.now = now]]
    /\ UNCHANGED <<now, rate_limiter_requests, security_log, issued_tokens,
                   logged_out_tokens, response, is_allowed_returns, stats, counted_scores,
                   extractor_vars>>

\* lines 70-74, the right-hand side: the list is read and filtered
is_allowed_read(thread) ==
    LET frame == is_allowed_frames[thread]
    IN  /\ frame.pc = "clean"
        /\ is_allowed_frames' =
              [is_allowed_frames EXCEPT
                 ![thread] =
                    IF frame.identifier \in DOMAIN rate_limiter_requests
                    THEN [frame EXCEPT
                            !.pc = "store",
                            !.entries = CleanOld(rate_limiter_requests[frame.identifier],
                                                 frame.now - rate_limit_window)]
                    ELSE [frame EXCEPT !.pc = "count"]]
        /\ UNCHANGED <<now, rate_limiter_requests, security_log, issued_tokens,
                       logged_out_tokens, response, is_allowed_returns, stats,
                       counted_scores, extractor_vars>>

\* line 71, the assignment: the filtered list replaces the one in self.requests
is_allowed_store(thread) ==
    LET frame == is_allowed_frames[thread]
    IN  /\ frame.pc = "store"
        /\ rate_limiter_requests' =
              Put(rate_limiter_requests, frame.identifier, frame.entries)
        /\ is_allowed_frames' = [is_allowed_frames EXCEPT ![thread].pc = "count"]
        /\ UNCHANGED <<now, security_log, issued_tokens, logged_out_tokens, response,
                       is_allowed_returns, stats, counted_scores, extractor_vars>>

\* line 77: current_count
is_allowed_count(thread) ==
    LET frame == is_allowed_frames[thread]
    IN  /\ frame.pc = "count"
        /\ is_allowed_frames' =
              [is_allowed_frames EXCEPT
                 ![thread].pc = "check",
                 ![thread].current_count =
                     SumCounts(Get(rate_limiter_requests, frame.identifier, <<>>))]
        /\ UNCHANGED <<now, rate_limiter_requests, security_log, issued_tokens,
                       logged_out_tokens, response, is_allowed_returns, stats,
                       counted_scores, extractor_vars>>

\* lines 79-87: return False, or add the request and return True
is_allowed_return(thread) ==
    LET frame == is_allowed_frames[thread]
        allowed == frame.current_count < rate_limit_requests
    IN  /\ frame.pc = "check"
        /\ rate_limiter_requests' =
              IF allowed
              THEN Put(rate_limiter_requests, frame.identifier,
                       Append(Get(rate_limiter_requests, frame.identifier, <<>>),
                              <<frame.now, 1>>))
              ELSE rate_limiter_requests
        /\ is_allowed_returns' =
              Append(is_allowed_returns,
                     IsAllowedReturn(frame.identifier, frame.now, allowed,
                              rate_limit_requests - frame.current_count))
        /\ is_allowed_frames' = [is_allowed_frames EXCEPT ![thread] = NoFrame]
        /\ UNCHANGED <<now, security_log, issued_tokens, logged_out_tokens, response,
                       stats, counted_scores, extractor_vars>>

-----------------------------------------------------------------------------
(* The /secure/* endpoints and secure_app.stats.  What the extractor, the  *)
(* face processor and the file system do with a request is an input of the *)
(* handler; average_accuracy is computed exactly, not in floating point.   *)

\* the number of requests that reach a /secure/* handler
MaxRequests == 2

\* result['extraction_score'] of extractor.extract, in hundredths of a percent
\* point: none, four and all of the important fields found
ExtractionScores ==
    {RoundHalfEven(k * 100 * 100, Len(important_fields)) : k \in {0, 4, 9}}

\* what happens to a request inside a handler: kind is "no_image" (the body
\* lacks the image, the file or one of the two images), "invalid" (the
\* validation decorator refuses it), "raises" (decoding, preprocessing or
\* extraction raises), "no_face" (no face in the passport) or "extracted";
\* saved: the result file was written
Handling(kind, score, verified, saved) ==
    [kind |-> kind, score |-> score, verified |-> verified, saved |-> saved]

Handlings ==
    {Handling(kind, 0, FALSE, FALSE) : kind \in {"no_image", "invalid", "raises", "no_face"}}
        \cup {Handling("extracted", score, verified, saved) :
                score \in ExtractionScores, verified \in BOOLEAN, saved \in BOOLEAN}

\* the requests to /secure/extract and /secure/extract-file: no face is looked for
ExtractHandlings == {h \in Handlings : h.kind # "no_face" /\ ~h.verified}

\* the requests to /secure/verify-passport: the body has no 'image' key, so
\* @validate_json_input lets every one of them through
VerifyHandlings == {h \in Handlings : h.kind # "invalid"}

\* the decorators of the /secure/* routes up to @rate_limit: the status that
\* ends the request (0: none), g.user, and self.requests of the limiter
SecureGuards(remote_addr, authorization) ==
    LET auth  == require_auth(authorization, now)
        perm  == require_permission("read", auth.user)
        limit == is_allowed(rate_limiter_requests, remote_addr, now)
    IN  IF auth.status # 0
        THEN [status |-> auth.status, user |-> <<>>, requests |-> rate_limiter_requests]
        ELSE IF perm.status # 0
        THEN [status |-> perm.status, user |-> <<>>, requests |-> rate_limiter_requests]
        ELSE [status |-> IF limit.returned THEN 0 ELSE 429, user |-> auth.user,
              requests |-> limit.requests]

\* the running mean of secure_extract, lines 351-353
RunningAverage(current_avg, total, score) ==
    Rational(current_avg.num * (total - 1) + score * current_avg.den,
             current_avg.den * total)

\* "Update statistics" of secure_extract and secure_extract_file
UpdateStatistics(s, score) ==
    IF score > 0
    THEN LET total == s.successful_extractions + 1
         IN [s EXCEPT !.successful_extractions = total,
                      !.average_accuracy = RunningAverage(s.average_accuracy, total, score)]
    ELSE [s EXCEPT !.failed_extractions = @ + 1]

\* "Update statistics" of secure_verify_passport
UpdateVerificationStatistics(s, score, verified) ==
    [s EXCEPT
       !.successful_extractions = IF score > 0 THEN @ + 1 ELSE @,
       !.successful_verifications = IF verified THEN @ + 1 ELSE @,
       !.face_verifications = @ + 1]

\* the body of secure_extract and of secure_extract_file: stats, the scores
\* counted, the log and the status after it
ExtractHandler(event_type, remote_addr, username, handling) ==
    LET entered == [stats EXCEPT !.total_requests = @ + 1]
        logged  == security_log \cup {LogEntry(event_type, remote_addr, username)}
        updated == UpdateStatistics(entered, handling.score)
        counted == IF handling.score > 0 THEN Append(counted_scores, handling.score)
                   ELSE counted_scores
    IN  IF handling.kind = "no_image"
        THEN [stats |-> entered, counted |-> counted_scores, log |-> security_log,
              status |-> 400]
        ELSE IF handling.kind # "extracted"
        THEN [stats |-> [entered EXCEPT !.failed_extractions = @ + 1],
              counted |-> counted_scores, log |-> logged, status |-> 500]
        ELSE IF ~handling.saved
        THEN [stats |-> [updated EXCEPT !.failed_extractions = @ + 1],
              counted |-> counted, log |-> logged, status |-> 500]
        ELSE [stats |-> updated, counted |-> counted, log |-> logged, status |-> 200]

\* the body of secure_verify_passport
VerifyHandler(remote_addr, username, handling) ==
    LET entered == [stats EXCEPT !.total_requests = @ + 1]
        logged  == security_log
                     \cup {LogEntry("complete_verification_request", remote_addr, username)}
        updated == UpdateVerificationStatistics(entered, handling.score, handling.verified)
        counted == IF handling.score > 0 THEN Append(counted_scores, handling.score)
                   ELSE counted_scores
    IN  IF handling.kind = "no_image"
        THEN [stats |-> entered, counted |-> counted_scores, log |-> security_log,
              status |-> 400]
        ELSE IF handling.kind = "raises"
        THEN [stats |-> entered, counted |-> counted_scores, log |-> logged,
              status |-> 500]
        ELSE IF handling.kind = "no_face"
        THEN [stats |-> entered, counted |-> counted_scores, log |-> logged,
              status |-> 400]
        ELSE [stats |-> updated, counted |-> counted, log |-> logged,
              status |-> IF handling.saved THEN 200 ELSE 500]

\* a request to a /secure/* route: the decorators, then the handler
SecureEndpoint(endpoint, validation_event, remote_addr, authorization, handling) ==
    LET guard   == SecureGuards(remote_addr, authorization)
        handled ==
            IF endpoint = "secure_verify_passport"
            THEN VerifyHandler(remote_addr, guard.user[1].username, handling)
            ELSE ExtractHandler(IF endpoint = "secure_extract" THEN "extract_request"
                                ELSE "file_upload",
                                remote_addr, guard.user[1].username, handling)
    IN  /\ stats.total_requests < MaxRequests
        /\ rate_limiter_requests' = guard.requests
        /\ IF guard.status # 0
           THEN /\ response' = Response(endpoint, remote_addr, authorization,
                                        guard.status, FALSE)
                /\ UNCHANGED <<security_log, stats, counted_scores>>
           ELSE IF handling.kind = "invalid"
           THEN /\ response' = Response(endpoint, remote_addr, authorization, 400, FALSE)
                /\ security_log' = security_log
                        \cup {LogEntry(validation_event, remote_addr, "")}
                /\ UNCHANGED <<stats, counted_scores>>
           ELSE /\ response' = Response(endpoint, remote_addr, authorization,
                                        handled.status, TRUE)
                /\ security_log' = handled.log
                /\ stats' = handled.stats
                /\ counted_scores' = handled.counted
        /\ UNCHANGED <<now, issued_tokens, logged_out_tokens, is_allowed_frames,
                       is_allowed_returns, extractor_vars>>

\* POST /secure/extract
secure_extract(remote_addr, authorization, handling) ==
    SecureEndpoint("secure_extract", "base64_validation_failed", remote_addr,
                   authorization, handling)

\* POST /secure/extract-file
secure_extract_file(remote_addr, authorization, handling) ==
    SecureEndpoint("secure_extract_file", "file_validation_failed", remote_addr,
                   authorization, handling)

\* POST /secure/verify-passport
secure_verify_passport(remote_addr, authorization, handling) ==
    SecureEndpoint("secure_verify_passport", "", remote_addr, authorization, handling)
-----------------------------------------------------------------------------
(* extract(): the steps of one call *)

PassNames ==
    <<"standard", "single_column", "uniform_block", "single_line", "eng_lang",
      "ara_lang", "high_confidence", "region_top_right", "region_center",
      "region_bottom">>

VariantNames == <<"original", "enhanced", "binarized">>

\* config.get('confidence_threshold', 60), with no such key configured
confidence_threshold == 60

\* results.append((name, text)) of a pass, if it returned text that is not blank
PassResult(name, outcome) ==
    IF ~outcome.raises /\ Strip(outcome.text) # "" THEN << <<name, outcome.text>> >> ELSE <<>>

\* ' '.join(words)
RECURSIVE JoinWords(_)
JoinWords(words) ==
    IF words = <<>> THEN ""
    ELSE IF Len(words) = 1 THEN words[1]
    ELSE words[1] \o " " \o JoinWords(Tail(words))

\* the tokens above the threshold, of image_to_data's answer
high_conf_text(tokens) ==
    LET at == {i \in 1..Len(tokens.conf) :
                  tokens.conf[i] > confidence_threshold /\ Strip(tokens.text[i]) # ""}
        RECURSIVE From(_)
        From(i) == IF i > Len(tokens.conf) THEN <<>>
                   ELSE (IF i \in at THEN <<tokens.text[i]>> ELSE <<>>) \o From(i + 1)
    IN From(1)

\* variant with one try around the loop over the four configurations: the
\* first pass that raises ends the loop (sensitivity of C16)
multi_pass_extraction_one_try(page) ==
    LET raising == {i \in 1..4 : page.string[i].raises}
        StringPass(i) == IF \E j \in raising : j <= i THEN <<>>
                         ELSE PassResult(PassNames[i], page.string[i])
    IN StringPass(1) \o StringPass(2) \o StringPass(3) \o StringPass(4)
         \o PassResult(PassNames[5], page.lang[1]) \o PassResult(PassNames[6], page.lang[2])
         \o (IF ~page.data.raises /\ high_conf_text(page.data) # <<>>
             THEN << <<PassNames[7], JoinWords(high_conf_text(page.data))>> >> ELSE <<>>)
         \o PassResult(PassNames[8], page.regions[1])
         \o PassResult(PassNames[9], page.regions[2])
         \o PassResult(PassNames[10], page.regions[3])

\* _multi_pass_extraction with _extract_from_regions: the list it returns
multi_pass_extraction(page) ==
    PassResult(PassNames[1], page.string[1]) \o PassResult(PassNames[2], page.string[2])
      \o PassResult(PassNames[3], page.string[3]) \o PassResult(PassNames[4], page.string[4])
      \o PassResult(PassNames[5], page.lang[1]) \o PassResult(PassNames[6], page.lang[2])
      \o (IF ~page.data.raises /\ high_conf_text(page.data) # <<>>
          THEN << <<PassNames[7], JoinWords(high_conf_text(page.data))>> >> ELSE <<>>)
      \o PassResult(PassNames[8], page.regions[1]) \o PassResult(PassNames[9], page.regions[2])
      \o PassResult(PassNames[10], page.regions[3])

\* self.ocr_confidence_data[f"{id(image)}"] = {...} for the images from i on
RECURSIVE StoreTokens(_, _, _)
StoreTokens(table, images, i) ==
    IF i > Len(images) THEN table
    ELSE StoreTokens(IF images[i].page.data.raises THEN table
                     ELSE Put(table, images[i].id,
                              [text |-> images[i].page.data.text,
                               conf |-> images[i].page.data.conf]),
                     images, i + 1)

\* the loop of extract() over preprocessed_images from image i on
RECURSIVE CollectTexts(_, _)
CollectTexts(images, i) ==
    IF i > Len(images) THEN <<>>
    ELSE LET texts == multi_pass_extraction(images[i].page)
         IN [k \in 1..Len(texts) |-> <<images[i].name \o "_" \o texts[k][1], texts[k][2]>>]
              \o CollectTexts(images, i + 1)

Pages == {PageA, PageB, PageC, PageBlank}

\* id(image): two objects alive together have different ids, a later object
\* may get the id of a dead one
ImageIds == {1, 2}

MaxImages == Cardinality(ImageIds)

\* the image maps a caller passes: variants in dict order
Requests ==
    UNION {{[i \in 1..n |-> [name |-> VariantNames[i], id |-> ids[i], page |-> pages[i]]] :
              ids \in {f \in [1..n -> ImageIds] : \A a, b \in 1..n : a # b => f[a] # f[b]},
              pages \in [1..n -> Pages]} :
           n \in 0..MaxImages}

\* extract(), lines 25-31, and the empty draft of _smart_field_extraction
Extract ==
    /\ pc \in {"idle", "done"}
    /\ \E images \in Requests :
          /\ preprocessed_images' = images
          /\ all_extracted_texts' = CollectTexts(images, 1)
          /\ ocr_confidence_data' = StoreTokens(ocr_confidence_data, images, 1)
          /\ request_table' = StoreTokens(EmptyDict, images, 1)
    /\ data' = EmptyData
    /\ mrz_data' = NoMrz
    /\ result' = None
    /\ mrz_decoders' = <<>>
    /\ pc' = "passport_number"
    /\ UNCHANGED <<confidence_call, helper_call, FASTMRZ_AVAILABLE, server_vars>>

Do_extract_passport_number ==
    /\ pc = "passport_number"
    /\ data' = extract_passport_number(data, all_extracted_texts, ocr_confidence_data)
    /\ pc' = "national_id"
    /\ UNCHANGED <<ocr_confidence_data, preprocessed_images, all_extracted_texts,
                   mrz_data, result, request_table, confidence_call, helper_call,
                   mrz_decoders, FASTMRZ_AVAILABLE, server_vars>>

Do_extract_national_id ==
    /\ pc = "national_id"
    /\ data' = extract_national_id(data, all_extracted_texts, ocr_confidence_data)
    /\ pc' = "dates"
    /\ UNCHANGED <<ocr_confidence_data, preprocessed_images, all_extracted_texts,
                   mrz_data, result, request_table, confidence_call, helper_call,
                   mrz_decoders, FASTMRZ_AVAILABLE, server_vars>>

Do_extract_dates ==
    /\ pc = "dates"
    /\ data' = extract_dates(data, all_extracted_texts, ocr_confidence_data)
    /\ pc' = "name"
    /\ UNCHANGED <<ocr_confidence_data, preprocessed_images, all_extracted_texts,
                   mrz_data, result, request_table, confidence_call, helper_call,
                   mrz_decoders, FASTMRZ_AVAILABLE, server_vars>>

Do_extract_name ==
    /\ pc = "name"
    /\ data' = extract_name(data, all_extracted_texts, ocr_confidence_data)
    /\ pc' = "sex"
    /\ UNCHANGED <<ocr_confidence_data, preprocessed_images, all_extracted_texts,
                   mrz_data, result, request_table, confidence_call, helper_call,
                   mrz_decoders, FASTMRZ_AVAILABLE, server_vars>>

Do_extract_sex ==
    /\ pc = "sex"
    /\ data' = extract_sex(data, all_extracted_texts, ocr_confidence_data)
    /\ pc' = "place_of_birth"
    /\ UNCHANGED <<ocr_confidence_data, preprocessed_images, all_extracted_texts,
                   mrz_data, result, request_table, confidence_call, helper_call,
                   mrz_decoders, FASTMRZ_AVAILABLE, server_vars>>

Do_extract_place_of_birth ==
    /\ pc = "place_of_birth"
    /\ data' = extract_place_of_birth(data, all_extracted_texts, ocr_confidence_data)
    /\ pc' = "place_of_issue"
    /\ UNCHANGED <<ocr_confidence_data, preprocessed_images, all_extracted_texts,
                   mrz_data, result, request_table, confidence_call, helper_call,
                   mrz_decoders, FASTMRZ_AVAILABLE, server_vars>>

Do_extract_place_of_issue ==
    /\ pc = "place_of_issue"
    /\ data' = extract_place_of_issue(data, all_extracted_texts, ocr_confidence_data)
    /\ pc' = "nationality"
    /\ UNCHANGED <<ocr_confidence_data, preprocessed_images, all_extracted_texts,
                   mrz_data, result, request_table, confidence_call, helper_call,
                   mrz_decoders, FASTMRZ_AVAILABLE, server_vars>>

Do_extract_nationality ==
    /\ pc = "nationality"
    /\ data' = extract_nationality(data, all_extracted_texts)
    /\ pc' = "mrz"
    /\ UNCHANGED <<ocr_confidence_data, preprocessed_images, all_extracted_texts,
                   mrz_data, result, request_table, confidence_call, helper_call,
                   mrz_decoders, FASTMRZ_AVAILABLE, server_vars>>

Do_calculate_dynamic_confidence ==
    /\ pc = "calculate_dynamic_confidence"
    /\ confidence_call' =
          [confidence_call EXCEPT
             !.returned = calculate_dynamic_confidence(confidence_call.extracted_value,
                                                       confidence_call.base_confidence,
                                                       ocr_confidence_data)]
    /\ pc' = "returned"
    /\ UNCHANGED <<ocr_confidence_data, preprocessed_images, all_extracted_texts, data,
                   mrz_data, result, request_table, helper_call, mrz_decoders,
                   FASTMRZ_AVAILABLE, server_vars>>

\* a call of _format_date on its own
Do_format_date ==
    /\ pc = "format_date"
    /\ helper_call' = [helper_call EXCEPT !.returned = format_date(helper_call.date_str)]
    /\ pc' = "returned"
    /\ UNCHANGED <<ocr_confidence_data, preprocessed_images, all_extracted_texts, data,
                   mrz_data, result, request_table, confidence_call, mrz_decoders,
                   FASTMRZ_AVAILABLE, server_vars>>

\* a call of _parse_mrz_text on its own
Do_parse_mrz_text ==
    /\ pc = "parse_mrz_text"
    /\ helper_call' = [helper_call EXCEPT !.returned = parse_mrz_text(helper_call.mrz_text)]
    /\ pc' = "parsed_mrz_text"
    /\ UNCHANGED <<ocr_confidence_data, preprocessed_images, all_extracted_texts, data,
                   mrz_data, result, request_table, confidence_call, mrz_decoders,
                   FASTMRZ_AVAILABLE, server_vars>>

\* a call of _multi_pass_extraction on its own
Do_multi_pass_extraction ==
    /\ pc = "multi_pass_extraction"
    /\ helper_call' =
          [helper_call EXCEPT !.returned = multi_pass_extraction(helper_call.image.page)]
    /\ ocr_confidence_data' = StoreTokens(ocr_confidence_data, <<helper_call.image>>, 1)
    /\ pc' = "returned"
    /\ UNCHANGED <<preprocessed_images, all_extracted_texts, data, mrz_data, result,
                   request_table, confidence_call, mrz_decoders,
                   FASTMRZ_AVAILABLE, server_vars>>

\* a call of _calculate_mrz_confidence on its own
Do_calculate_mrz_confidence ==
    /\ pc = "calculate_mrz_confidence"
    /\ helper_call' =
          [helper_call EXCEPT !.returned = calculate_mrz_confidence(helper_call.mrz_data)]
    /\ pc' = "returned"
    /\ UNCHANGED <<ocr_confidence_data, preprocessed_images, all_extracted_texts, data,
                   mrz_data, result, request_table, confidence_call, mrz_decoders,
                   FASTMRZ_AVAILABLE, server_vars>>

\* _extract_dates, lines 277-278, on its own: a (day, month, year) in range is
\* formatted
Do_format_valid_date ==
    /\ pc = "format_valid_date"
    /\ 1 <= helper_call.day /\ helper_call.day <= 31
    /\ 1 <= helper_call.month /\ helper_call.month <= 12
    /\ 1900 <= helper_call.year /\ helper_call.year <= 2100
    /\ helper_call' =
          [helper_call EXCEPT
             !.date_str = FormatDate(helper_call.day, helper_call.month, helper_call.year)]
    /\ pc' = "parse_date_string"
    /\ UNCHANGED <<ocr_confidence_data, preprocessed_images, all_extracted_texts, data,
                   mrz_data, result, request_table, confidence_call, mrz_decoders,
                   FASTMRZ_AVAILABLE, server_vars>>

\* a call of PassportPatterns.parse_date_string on its own
Do_parse_date_string ==
    /\ pc = "parse_date_string"
    /\ helper_call' = [helper_call EXCEPT !.returned = parse_date_string(helper_call.date_str)]
    /\ pc' = "returned"
    /\ UNCHANGED <<ocr_confidence_data, preprocessed_images, all_extracted_texts, data,
                   mrz_data, result, request_table, confidence_call, mrz_decoders,
                   FASTMRZ_AVAILABLE, server_vars>>

\* extract(), line 37: the MRZ of the main image
Do_extract_mrz_data ==
    /\ pc = "mrz"
    /\ preprocessed_images # <<>>
    /\ \E zone \in MrzZones :
          /\ mrz_data' = extract_mrz_data(zone, FASTMRZ_AVAILABLE)
          /\ mrz_decoders' = extract_mrz_data_steps(zone, FASTMRZ_AVAILABLE).decoders
    /\ pc' = "fuse"
    /\ UNCHANGED <<ocr_confidence_data, preprocessed_images, all_extracted_texts, data,
                   result, request_table, confidence_call, helper_call,
                   FASTMRZ_AVAILABLE, server_vars>>

\* extract(), line 40
Do_enhance_extraction_with_mrz ==
    /\ pc = "fuse"
    /\ Truthy(mrz_data.mrz_text)
    /\ result' = enhance_extraction_with_mrz(data, mrz_data)
    /\ data' = DraftAfterEnhance(data, mrz_data)
    /\ pc' = "score"
    /\ UNCHANGED <<ocr_confidence_data, preprocessed_images, all_extracted_texts,
                   mrz_data, request_table, confidence_call, helper_call,
                   mrz_decoders, FASTMRZ_AVAILABLE, server_vars>>

\* variant that records the method of the failed MRZ decode in the
\* extraction_method map of the record (sensitivity of C19)
SkipEnhanceRecordsFailure ==
    /\ \/ pc = "mrz" /\ preprocessed_images = <<>>
       \/ pc = "fuse" /\ ~Truthy(mrz_data.mrz_text)
    /\ result' = [data EXCEPT !.extraction_method =
                                 Put(@, "mrz", mrz_data.extraction_method)]
    /\ pc' = "score"
    /\ UNCHANGED <<ocr_confidence_data, preprocessed_images, all_extracted_texts, data,
                   mrz_data, request_table, confidence_call, helper_call,
                   mrz_decoders, FASTMRZ_AVAILABLE, server_vars>>

\* extract(), lines 35 and 38 when false: the draft is the record to return
SkipEnhance ==
    /\ \/ pc = "mrz" /\ preprocessed_images = <<>>
       \/ pc = "fuse" /\ ~Truthy(mrz_data.mrz_text)
    /\ result' = data
    /\ pc' = "score"
    /\ UNCHANGED <<ocr_confidence_data, preprocessed_images, all_extracted_texts, data,
                   mrz_data, request_table, confidence_call, helper_call,
                   mrz_decoders, FASTMRZ_AVAILABLE, server_vars>>

\* extract(), lines 42-45; without fusion the draft is the same dict
Return ==
    /\ pc = "score"
    /\ result' = Update(result, [extraction_score |-> calculate_score(result),
                                 extraction_summary |-> generate_summary(result)])
    /\ data' = IF "mrz_text" \in DOMAIN result THEN data ELSE result'
    /\ pc' = "done"
    /\ UNCHANGED <<ocr_confidence_data, preprocessed_images, all_extracted_texts,
                   mrz_data, request_table, confidence_call, helper_call,
                   mrz_decoders, FASTMRZ_AVAILABLE, server_vars>>

-----------------------------------------------------------------------------
(* Specifications of the single extractors: the draft record is empty, the  *)
(* observation list is any list of texts up to a length                     *)

MaxPassportObs == 5
MaxDateObs == 4
MaxNameObs == 3
MaxPlaceObs == 3

\* f"{preprocess_name}_{ocr_method}" of the i-th observation of a full scan
SourceAt(i) ==
    VariantNames[((i - 1) \div Len(PassNames)) + 1] \o "_"
        \o PassNames[((i - 1) % Len(PassNames)) + 1]

ObsLists(texts, maxObs) ==
    UNION {{[i \in 1..n |-> <<SourceAt(i), ts[i]>>] : ts \in [1..n -> texts]} :
              n \in 0..maxObs}

\* tables a call can find: empty, or the tokens of one page under image id 1
TableOf(page) == 1 :> [text |-> page.data.text, conf |-> page.data.conf]

Tables ==
    {EmptyDict, TableOf(PageA), TableOf(PageC), TableOf(PageBlank),
     TableOf(PageC) @@ (2 :> [text |-> <<"SUDAN", "ali", " HASSAN\n", "M">>,
                              conf |-> <<96, 70, 81, 0>>])}

NoCall == [extracted_value |-> None, base_confidence |-> 0, returned |-> 0]

ExtractorInit(step, texts, maxObs, tables) ==
    /\ pc = step
    /\ all_extracted_texts \in ObsLists(texts, maxObs)
    /\ ocr_confidence_data \in tables
    /\ request_table = ocr_confidence_data
    /\ data = EmptyData
    /\ preprocessed_images = <<>>
    /\ mrz_data = NoMrz
    /\ result = None
    /\ confidence_call = NoCall
    /\ helper_call = NoCall
    /\ mrz_decoders = <<>>
    /\ ServerInit
    /\ FASTMRZ_AVAILABLE = TRUE

PassportTexts ==
    {"B00013285 P12345678", "po1234567", "P O1234567", "AB123456\n", "p 12345678\n"}

InitPassport == ExtractorInit("passport_number", PassportTexts, MaxPassportObs, {EmptyDict})

SpecPassport == InitPassport /\ [][Do_extract_passport_number]_vars

DateTexts ==
    {"Date of Birth 01.02.1990", "Date of Issue 15.06.2015",
     "Date of Expiry 14.06.2025", "32.01.2000 1.2.1990"}

InitDates == ExtractorInit("dates", DateTexts, MaxDateObs, {EmptyDict})

SpecDates == InitDates /\ [][Do_extract_dates]_vars

NameTexts ==
    {"ALI HASSAN", "OMAR AHMED", "ALI HASSAN MOHAMED AHMED",
     "REPUBLIC OF THE SUDAN", "Name: KHALID OSMAN\nALI"}

InitName == ExtractorInit("name", NameTexts, MaxNameObs, {EmptyDict})

SpecName == InitName /\ [][Do_extract_name]_vars

PlaceTexts ==
    {"Authority: KHARTOUM", "Place of Issue: RIYADH",
     "Place of Issue: KHARTOUM / \nDate", "Authority\nNATIONALITY\n",
     "Place of Birth: RIYADH\nAuthority: KHARTOUM", "Place of Birth\nkhartoum\n"}

InitPlace == ExtractorInit("place_of_birth", PlaceTexts, MaxPlaceObs, {EmptyDict})

SpecPlace ==
    InitPlace /\ [][Do_extract_place_of_birth \/ Do_extract_place_of_issue]_vars

\* the whole of _smart_field_extraction on the texts of the model's pages
FieldExtractionSteps ==
    \/ Do_extract_passport_number
    \/ Do_extract_national_id
    \/ Do_extract_dates
    \/ Do_extract_name
    \/ Do_extract_sex
    \/ Do_extract_place_of_birth
    \/ Do_extract_place_of_issue
    \/ Do_extract_nationality

\* calls of _calculate_dynamic_confidence: the values and the base confidences
\* the extractors pass, on the tables above
ConfidenceValues == {"", "P12345678", "ALI HASSAN", "M", "KHARTOUM"}

BaseConfidences == {Pct(95), Pct(90), Pct(85), Pct(80)}

InitConfidence ==
    /\ pc = "calculate_dynamic_confidence"
    /\ confidence_call \in
          {[extracted_value |-> v, base_confidence |-> b, returned |-> 0] :
              v \in ConfidenceValues, b \in BaseConfidences}
    /\ helper_call = NoCall
    /\ mrz_decoders = <<>>
    /\ ServerInit
    /\ ocr_confidence_data \in Tables
    /\ request_table = ocr_confidence_data
    /\ all_extracted_texts = <<>>
    /\ data = EmptyData
    /\ preprocessed_images = <<>>
    /\ mrz_data = NoMrz
    /\ result = None
    /\ FASTMRZ_AVAILABLE = TRUE

SpecConfidence == InitConfidence /\ [][Do_calculate_dynamic_confidence]_vars

\* a helper called on its own: nothing of the extractor's state is involved
HelperInit(step, calls) ==
    /\ pc = step
    /\ helper_call \in calls
    /\ mrz_decoders = <<>>
    /\ ServerInit
    /\ confidence_call = NoCall
    /\ ocr_confidence_data = EmptyDict
    /\ request_table = EmptyDict
    /\ all_extracted_texts = <<>>
    /\ data = EmptyData
    /\ preprocessed_images = <<>>
    /\ mrz_data = NoMrz
    /\ result = None
    /\ FASTMRZ_AVAILABLE = TRUE

\* calls of _format_date: two characters for the year, the month and the day as
\* an MRZ reading gives them (digits, fillers, letters, blanks and signs that
\* OCR or the decoder leave), and strings of other lengths
MrzDateStrings ==
    LET YearChars  == {"00", "05", "29", "30", "85", "99", " 5", "-5", "+5", "<<", "8A"}
        MonthChars == {"00", "01", "06", "12", "13", " 6", "+6", "-6", "<<"}
        DayChars   == {"00", "01", "15", "31", "32", " 5", "+5", "1 ", "<<"}
    IN {yy \o mm \o dd : yy \in YearChars, mm \in MonthChars, dd \in DayChars}
         \cup {None, "", "85061", "8506150", "<<<<<<<"}

SpecFormatDate ==
    /\ HelperInit("format_date", {[date_str |-> s, returned |-> None] : s \in MrzDateStrings})
    /\ [][Do_format_date]_vars

\* dates formatted as _extract_dates formats them, then parsed by
\* parse_date_string; and strings of other shapes parsed directly
DateTriples ==
    {[day |-> d, month |-> m, year |-> y, date_str |-> "", returned |-> DateReturned(<<>>)] :
        d \in 0..32, m \in {0, 1, 6, 9, 10, 12, 13}, y \in {1899, 1900, 1985, 2005, 2100, 2101}}

DateStrings ==
    {[day |-> 0, month |-> 0, year |-> 0, date_str |-> s, returned |-> DateReturned(<<>>)] :
        s \in {"", "abc", " 15.06.1985 ", "15/06/1985", "1985-06-15", "15-06-85",
               "150-06-1985", "Born 15-06-1985"}}

SpecDateRoundTrip ==
    /\ \/ HelperInit("format_valid_date", DateTriples)
       \/ HelperInit("parse_date_string", DateStrings)
    /\ [][Do_format_valid_date \/ Do_parse_date_string]_vars

\* pages for _multi_pass_extraction: any set of the ten passes raises; the
\* others return text on every pass ("text"), or '' and blank text on some
\* passes and no token above the threshold ("sparse"), or nothing ("blank")
PassText(profile, i) ==
    IF profile = "blank" THEN IF i % 2 = 0 THEN "" ELSE " \n"
    ELSE IF profile = "sparse" /\ i % 2 = 0 THEN ""
    ELSE IF profile = "sparse" /\ i % 3 = 0 THEN "\n \n"
    ELSE "Passport No: P1234567" \o ToString(i - 1) \o "\n"

PassTokens(profile) ==
    IF profile = "text"
    THEN DataReturned(<<"", "Passport", " ", "No:", "P12345678">>, <<-1, 96, 95, 60, 61>>)
    ELSE IF profile = "sparse"
    THEN DataReturned(<<"Passport", " \n", "P12345678">>, <<60, 90, 0>>)
    ELSE DataReturned(<<>>, <<>>)

PassPage(raising, profile) ==
    LET StringPass(i) == IF i \in raising THEN Raised ELSE Returned(PassText(profile, i))
    IN [string  |-> <<StringPass(1), StringPass(2), StringPass(3), StringPass(4)>>,
        lang    |-> <<StringPass(5), StringPass(6)>>,
        data    |-> IF 7 \in raising THEN DataRaised ELSE PassTokens(profile),
        regions |-> <<StringPass(8), StringPass(9), StringPass(10)>>]

PassPages ==
    {PassPage(raising, profile) :
        raising \in SUBSET (1..Len(PassNames)), profile \in {"text", "sparse", "blank"}}

SpecMultiPass ==
    /\ HelperInit("multi_pass_extraction",
                  {[image |-> [name |-> VariantNames[1], id |-> 1, page |-> page],
                    returned |-> <<>>] : page \in PassPages})
    /\ [][Do_multi_pass_extraction]_vars

\* MRZ dicts for _calculate_mrz_confidence: each of the six fields and the MRZ
\* text is None, '' or a value, under each extraction method
MrzDicts ==
    {[NoMrz EXCEPT !.passport_number = f[1], !.nationality = f[2], !.date_of_birth = f[3],
                   !.date_of_expiry = f[4], !.sex = f[5], !.names = f[6],
                   !.mrz_text = t, !.extraction_method = method] :
        f \in [1..6 -> {None, "", "X"}], t \in {None, "", "P<SDN"},
        method \in {"fastmrz", "fallback_ocr", "none"}}

\* _calculate_mrz_confidence on these dicts, and extract_mrz_data called on its
\* own on the main image of a request (the processor reads nothing of the
\* extractor's state), on the MRZ zones of the model, the decoder installed or not
SpecMrzConfidence ==
    /\ \/ HelperInit("calculate_mrz_confidence",
                      {[mrz_data |-> m, returned |-> 0] : m \in MrzDicts})
       \/ /\ pc = "mrz"
          /\ preprocessed_images \in {images \in Requests : Len(images) = 1}
          /\ FASTMRZ_AVAILABLE \in BOOLEAN
          /\ all_extracted_texts = <<>>
          /\ ocr_confidence_data = EmptyDict
          /\ request_table = EmptyDict
          /\ data = EmptyData
          /\ mrz_data = NoMrz
          /\ result = None
          /\ confidence_call = NoCall
          /\ helper_call = NoCall
          /\ mrz_decoders = <<>>
          /\ ServerInit
    /\ [][Do_calculate_mrz_confidence \/ Do_extract_mrz_data]_vars

-----------------------------------------------------------------------------
(* enhance_extraction_with_mrz on drafts and MRZ records *)

\* a draft with some fields set, each given by its recorded confidence
\* (Unset: the field is empty; 0: set without a recorded confidence)
Unset == 0 - 1

DraftWith(sex, passport_number, full_name, sudanese) ==
    LET d1 == IF sex = Unset THEN EmptyData
              ELSE [EmptyData EXCEPT
                      !.sex = "F",
                      !.confidence_scores = IF sex = 0 THEN @ ELSE Put(@, "sex", sex),
                      !.extraction_method = Put(@, "sex", "regex_search")]
        d2 == IF passport_number = Unset THEN d1
              ELSE [d1 EXCEPT
                      !.passport_number = "B00013285",
                      !.confidence_scores = Put(@, "passport_number", passport_number),
                      !.extraction_method = Put(@, "passport_number", "original_standard")]
        d3 == IF full_name = Unset THEN d2
              ELSE [d2 EXCEPT
                      !.full_name = "KHALID OSMAN",
                      !.confidence_scores = Put(@, "full_name", full_name),
                      !.extraction_method = Put(@, "full_name", "original_eng_lang")]
    IN IF ~sudanese THEN d3
       ELSE [d3 EXCEPT !.country_code = "SDN", !.passport_type = "PC",
                       !.nationality = "SUDANESE",
                       !.confidence_scores = Put(@, "nationality", Pct(98))]

FusionDrafts ==
    {DraftWith(sex, passport_number, full_name, sudanese) :
        sex \in {Unset, 0, Pct(90), Pct(70)},
        passport_number \in {Unset, Pct(95), (Pct(95) * 5) \div 10},
        full_name \in {Unset, ConfOne},
        sudanese \in BOOLEAN}

\* the MRZ records extract() passes on: those with MRZ text
MrzRecords ==
    {m \in {extract_mrz_data(zone, available) : zone \in MrzZones, available \in BOOLEAN} :
        Truthy(m.mrz_text)}

InitFusion ==
    /\ pc = "fuse"
    /\ data \in FusionDrafts
    /\ mrz_data \in MrzRecords
    /\ result = None
    /\ all_extracted_texts = <<>>
    /\ preprocessed_images = <<>>
    /\ ocr_confidence_data = EmptyDict
    /\ request_table = EmptyDict
    /\ confidence_call = NoCall
    /\ helper_call = NoCall
    /\ mrz_decoders = <<>>
    /\ ServerInit
    /\ FASTMRZ_AVAILABLE = TRUE

SpecFusion == InitFusion /\ [][Do_enhance_extraction_with_mrz]_vars

-----------------------------------------------------------------------------
(* The extractor of a server process: extract() called again and again *)

Init ==
    /\ pc = "idle"
    /\ ocr_confidence_data = EmptyDict
    /\ request_table = EmptyDict
    /\ preprocessed_images = <<>>
    /\ all_extracted_texts = <<>>
    /\ data = EmptyData
    /\ mrz_data = NoMrz
    /\ result = None
    /\ confidence_call = NoCall
    /\ helper_call = NoCall
    /\ mrz_decoders = <<>>
    /\ ServerInit
    /\ FASTMRZ_AVAILABLE \in BOOLEAN

Next ==
    \/ Extract
    \/ FieldExtractionSteps
    \/ Do_extract_mrz_data
    \/ Do_enhance_extraction_with_mrz
    \/ SkipEnhance
    \/ Return

Spec == Init /\ [][Next]_vars

\* every observation text is one the regular-expression library covers
TextsInCatalog ==
    \A i \in 1..Len(all_extracted_texts) : all_extracted_texts[i][2] \in OcrTexts

\* the secure server on its own: logins, logouts and requests to the admin
\* endpoints from the clients, and the clock
InitServer == HelperInit("idle", {NoCall})

NextServer ==
    \/ Tick
    \/ \E remote_addr \in RemoteAddrs, body \in LoginBodies : login(remote_addr, body)
    \/ \E remote_addr \in RemoteAddrs, authorization \in Authorizations :
            logout(remote_addr, authorization)
    \/ \E remote_addr \in RemoteAddrs, authorization \in Authorizations :
            admin_stats(remote_addr, authorization)
    \/ \E remote_addr \in RemoteAddrs, authorization \in Authorizations :
            admin_security_logs(remote_addr, authorization)

SpecServer == InitServer /\ [][NextServer]_vars

-----------------------------------------------------------------------------
(* _calculate_dynamic_confidence on tables of one or two images *)

\* the tokens image_to_data returns for a word: the text as read and its confidence
TokenTexts == {"ALI", " hassan\n", "SUDAN"}

TokenConfs == {0, 50, 87, 100}

\* the token lists of an image, up to n tokens
TokenLists(n) ==
    UNION {{[text |-> [i \in 1..k |-> t[i]], conf |-> [i \in 1..k |-> c[i]]] :
                t \in [1..k -> TokenTexts], c \in [1..k -> TokenConfs]} : k \in 0..n}

\* the tables of a request with no image, one image, two images
TokenTables ==
    {EmptyDict} \cup {1 :> a : a \in TokenLists(2)}
        \cup {(1 :> a) @@ (2 :> b) : a \in TokenLists(2), b \in TokenLists(1)}

InitDynamicConfidence ==
    /\ pc = "calculate_dynamic_confidence"
    /\ confidence_call \in
          {[extracted_value |-> v, base_confidence |-> b, returned |-> 0] :
              v \in {"Ali Hassan", "ALI"}, b \in {0, Pct(80), Pct(95), ConfOne}}
    /\ helper_call = NoCall
    /\ mrz_decoders = <<>>
    /\ ServerInit
    /\ ocr_confidence_data \in TokenTables
    /\ request_table = ocr_confidence_data
    /\ all_extracted_texts = <<>>
    /\ data = EmptyData
    /\ preprocessed_images = <<>>
    /\ mrz_data = NoMrz
    /\ result = None
    /\ FASTMRZ_AVAILABLE = TRUE

SpecDynamicConfidence == InitDynamicConfidence /\ [][Do_calculate_dynamic_confidence]_vars

-----------------------------------------------------------------------------
(* _extract_sex on texts with the sex in the formats of the catalog's patterns *)

MaxSexObs == 3

SexTexts ==
    {"Sex: {1} M", "Sex: {2} F", "sex: f {2}", "{3}: M/ {1}", "Sex: M", "No. {1} m",
     "Sex: M {1}\nDate of Birth 01.02.1990\n"}

InitSex == ExtractorInit("sex", SexTexts, MaxSexObs, {EmptyDict})

SpecSex == InitSex /\ [][Do_extract_sex]_vars


-----------------------------------------------------------------------------
(* _parse_mrz_text on its own: the text of the fallback OCR *)

\* the lines are those _extract_mrz_text keeps: stripped, 30 characters or more.
\* First lines: a TD3 first line, one of another document type, one whose
\* country is not three capitals, one without given names, one without '<<',
\* one that is not an MRZ line
MrzFirstLines ==
    {"P<SDNHASSAN<OMAR<<ALI<AHMED<<<<<<<<<<<<<<<<<<<<",
     "I<SDNHASSAN<<ALI<<<<<<<<<<<<<<<<<<<<<<<<<<<<<<<",
     "P<5DNHASSAN<<ALI<<<<<<<<<<<<<<<<<<<<<<<<<<<<<<<",
     "P<SDNHASSAN<ALI<<<<<<<<<<<<<<<<<<<<<<<<<<<<<<<<",
     "P<SDNHASSAN<OMAR<ALI<AHMED<MOHAMED<IBRAHIM<M",
     "REPUBLIC OF THE SUDAN PASSPORT No. P01234567"}

\* second lines, field by field: document number, check digit, nationality,
\* birth date, check digit, sex, expiry date, then the rest of the line, which
\* makes it 43, 44 or 45 characters long
MrzSecondLines ==
    LET DocNums  == {"P01234567", "AB<12<<<<", "<<<<<<<<<"}
        Births   == {"850615", "<<<<<<", "8513O5"}
        Sexes    == {"M", "F", "<", "X"}
        Expiries == {"290101", "<<<<<<", "300231"}
        Rests    == {"<<<<<<<<<<<<<<<2", "<<<<<<<<<<<<<<<<2", "<<<<<<<<<<<<<<<<<2"}
    IN {d \o "1SDN" \o b \o "2" \o s \o e \o r :
            d \in DocNums, b \in Births, s \in Sexes, e \in Expiries, r \in Rests}

\* the texts parsed: one line, two lines, three lines
MrzTexts ==
    {l1 \o "\n" \o l2 : l1 \in MrzFirstLines, l2 \in MrzSecondLines}
        \cup MrzFirstLines
        \cup {"P<SDNHASSAN<<ALI<<<<<<<<<<<<<<<<<<<<<<<<<<<<<<<\n" \o l2 \o "\n" \o l2 :
                l2 \in {"P012345671SDN8506152M2901015<<<<<<<<<<<<<<<<2"}}

InitParseMrzText ==
    HelperInit("parse_mrz_text", {[mrz_text |-> s, returned |-> EmptyDict] : s \in MrzTexts})

SpecParseMrzText == InitParseMrzText /\ [][Do_parse_mrz_text]_vars

-----------------------------------------------------------------------------
(* The rate limiter: calls one at a time, and calls from request threads *)

SpecRateLimiter ==
    /\ InitServer
    /\ [][Tick \/ \E identifier \in Identifiers : Do_is_allowed(identifier)]_vars

NextRateLimiterThreads ==
    \/ Tick
    \/ \E thread \in Threads, identifier \in Identifiers :
            is_allowed_enter(thread, identifier)
    \/ \E thread \in Threads : is_allowed_read(thread)
    \/ \E thread \in Threads : is_allowed_store(thread)
    \/ \E thread \in Threads : is_allowed_count(thread)
    \/ \E thread \in Threads : is_allowed_return(thread)

SpecRateLimiterThreads == InitServer /\ [][NextRateLimiterThreads]_vars

-----------------------------------------------------------------------------
(* The /secure/* endpoints, one request at a time *)

\* the login of the one user there is, and what a client sends afterwards
AdminLogin == [username |-> "admin", password |-> "admin123"]

SecureAuthorizations == {NoAuthorization} \cup {Bearer(t) : t \in issued_tokens}

NextSecure ==
    \/ Tick
    \/ \E remote_addr \in RemoteAddrs : login(remote_addr, AdminLogin)
    \/ \E remote_addr \in RemoteAddrs, authorization \in SecureAuthorizations,
          handling \in ExtractHandlings :
            secure_extract(remote_addr, authorization, handling)
    \/ \E remote_addr \in RemoteAddrs, authorization \in SecureAuthorizations,
          handling \in ExtractHandlings :
            secure_extract_file(remote_addr, authorization, handling)
    \/ \E remote_addr \in RemoteAddrs, authorization \in SecureAuthorizations,
          handling \in VerifyHandlings :
            secure_verify_passport(remote_addr, authorization, handling)

SpecSecure == InitServer /\ [][NextSecure]_vars
-----------------------------------------------------------------------------
(* Claims about _extract_passport_number *)

\* the (observation, pattern, match) positions of a list, and their scan order
PassportPositions(all_texts) ==
    UNION {UNION {{<<i, p, m>> :
                     m \in 1..Len(re_finditer_passport_number(p, all_texts[i][2]))} :
                  p \in 1..NumPassportPatterns} :
           i \in 1..Len(all_texts)}

Before(a, b) ==
    \/ a[1] < b[1]
    \/ a[1] = b[1] /\ a[2] < b[2]
    \/ a[1] = b[1] /\ a[2] = b[2] /\ a[3] <= b[3]

RawAt(all_texts, t) == re_finditer_passport_number(t[2], all_texts[t[1]][2])[t[3]]

\* the language [A-Z]?[0-9]{8,9}
InPassportLanguage(s) ==
    \/ /\ Len(s) \in {8, 9}
       /\ \A i \in 1..Len(s) : IsIn(SubSeq(s, i, i), Digits)
    \/ /\ Len(s) \in {9, 10}
       /\ IsIn(SubSeq(s, 1, 1), UpperLetters)
       /\ \A i \in 2..Len(s) : IsIn(SubSeq(s, i, i), Digits)

ValidPositions(all_texts) ==
    {t \in PassportPositions(all_texts) :
        InPassportLanguage(NormalizePassportCandidate(RawAt(all_texts, t)))}

\* C4: the passport number is the candidate of the first valid position in scan
\* order (observation, then pattern, then match) and its method is the source id
\* of that observation; with no valid position the field stays null
C4_FirstMatchWins ==
    pc = "national_id" =>
        LET valid == ValidPositions(all_extracted_texts)
        IN IF valid = {}
           THEN /\ data.passport_number = None
                /\ "passport_number" \notin DOMAIN data.extraction_method
           ELSE LET first == CHOOSE t \in valid : \A u \in valid : Before(t, u)
                IN /\ data.passport_number
                        = NormalizePassportCandidate(RawAt(all_extracted_texts, first))
                   /\ data.extraction_method["passport_number"]
                        = all_extracted_texts[first[1]][1]

\* valid candidates in observations #2 and #5, none in #1: that of #2 is stored
C4_Witness ==
    /\ pc = "national_id"
    /\ Len(all_extracted_texts) = 5
    /\ all_extracted_texts[1][2] = "AB123456\n"
    /\ all_extracted_texts[2][2] = "P O1234567"
    /\ all_extracted_texts[5][2] = "B00013285 P12345678"
    /\ data.passport_number = "01234567"
    /\ data.extraction_method["passport_number"] = "original_single_column"

\* the normalisation in the order the specification gives: upper-case, strip
\* spaces, map O to 0
NormalizeUpperFirst(raw) == Replace(Replace(Upper(raw), " ", ""), "O", "0")

\* C6 (as stated): every candidate is normalised by upper-casing, stripping
\* spaces and mapping O to 0, in that order, before validation: the stored
\* number is the first candidate in scan order whose normal form in that
\* order is in the language
C6_NormalizedUpperFirst ==
    pc = "national_id" =>
        LET valid == {t \in PassportPositions(all_extracted_texts) :
                        InPassportLanguage(
                            NormalizeUpperFirst(RawAt(all_extracted_texts, t)))}
        IN IF valid = {}
           THEN data.passport_number = None
           ELSE LET first == CHOOSE t \in valid : \A u \in valid : Before(t, u)
                IN data.passport_number
                     = NormalizeUpperFirst(RawAt(all_extracted_texts, first))

-----------------------------------------------------------------------------
(* Claims about _calculate_dynamic_confidence *)

\* a token of the table, with OCR confidence > 0, equals a word of the value
Corroborated(value, table) ==
    \E k \in DOMAIN table : \E i \in 1..Len(table[k].text) :
        /\ i <= Len(table[k].conf)
        /\ table[k].conf[i] > 0
        /\ table[k].text[i] # ""
        /\ InSeq(Upper(Strip(table[k].text[i])), Split(Upper(value)))

\* C1 (as stated): a non-empty value that no token of the table corroborates
\* gets exactly base_confidence * 0.5, whether the table is empty or not
C1_UncorroboratedIsHalved ==
    (/\ pc = "returned"
     /\ confidence_call.extracted_value # ""
     /\ ~Corroborated(confidence_call.extracted_value, ocr_confidence_data))
        => 2 * confidence_call.returned = confidence_call.base_confidence

-----------------------------------------------------------------------------
(* Claims about _extract_dates *)

Distinct(sq) == Cardinality({sq[i] : i \in 1..Len(sq)})

\* C7 (as stated): with V the valid dates in text order, date_of_birth is V[1],
\* date_of_issue is V[2], and date_of_expiry is the last of V if V holds at
\* least 3 distinct dates and null otherwise
C7_PositionalDates ==
    pc = "name" =>
        LET V == valid_dates(all_dates(all_extracted_texts))
        IN /\ data.date_of_birth = (IF Len(V) >= 1 THEN V[1] ELSE None)
           /\ data.date_of_issue = (IF Len(V) >= 2 THEN V[2] ELSE None)
           /\ data.date_of_expiry = (IF Distinct(V) >= 3 THEN V[Len(V)] ELSE None)

-----------------------------------------------------------------------------
(* Claims about _extract_place *)

FirstIndex(sq, x) == CHOOSE i \in 1..Len(sq) : sq[i] = x /\ \A j \in 1..(i - 1) : sq[j] # x

IsMajority(candidates, place) ==
    IF candidates = <<>> THEN place = None
    ELSE /\ InSeq(place, candidates)
         /\ \A j \in 1..Len(candidates) :
               \/ Count(candidates, candidates[j]) < Count(candidates, place)
               \/ /\ Count(candidates, candidates[j]) = Count(candidates, place)
                  /\ FirstIndex(candidates, place) <= j

\* C8: each place field is the accepted candidate with the highest occurrence
\* count over all observations and label patterns, the first seen among equals,
\* and stays null when there is no candidate
C8_MajorityVote ==
    /\ pc \in {"place_of_issue", "nationality"} =>
          IsMajority(place_candidates(all_extracted_texts, 1, 2, 1),
                     data.place_of_birth)
    /\ pc = "nationality" =>
          IsMajority(place_candidates(all_extracted_texts, 3, 6, 1),
                     data.place_of_issue)

\* RIYADH, KHARTOUM, KHARTOUM from three observations, RIYADH seen first
C8_Witness ==
    /\ pc = "nationality"
    /\ place_candidates(all_extracted_texts, 3, 6, 1)
         = <<"RIYADH", "KHARTOUM", "KHARTOUM">>
    /\ data.place_of_issue = "KHARTOUM"

-----------------------------------------------------------------------------
(* Claims about _extract_name *)

\* C9: full_name is the longest candidate of length 10..60 without stop-word
\* over all observations and patterns, the first in scan order among the
\* longest, and its method is the source id of the observation it came from
C9_LongestName ==
    pc = "sex" =>
        LET c == name_candidates(all_extracted_texts, 1)
        IN IF c = <<>>
           THEN data.full_name = None /\ "full_name" \notin DOMAIN data.extraction_method
           ELSE \E k \in 1..Len(c) :
                   /\ c[k] = <<data.full_name, data.extraction_method["full_name"]>>
                   /\ 10 <= Len(data.full_name) /\ Len(data.full_name) <= 60
                   /\ ~HasStopWord(data.full_name)
                   /\ \A j \in 1..Len(c) : Len(c[j][1]) <= Len(c[k][1])
                   /\ \A j \in 1..(k - 1) : Len(c[j][1]) < Len(c[k][1])

\* "ALI HASSAN" (10) and "ALI HASSAN MOHAMED AHMED" (24) both survive: the
\* longer one, from the second observation, is stored
C9_Witness ==
    /\ pc = "sex"
    /\ Len(all_extracted_texts) >= 2
    /\ all_extracted_texts[1][2] = "ALI HASSAN"
    /\ all_extracted_texts[2][2] = "ALI HASSAN MOHAMED AHMED"
    /\ data.full_name = "ALI HASSAN MOHAMED AHMED"
    /\ data.extraction_method["full_name"] = "original_single_column"

-----------------------------------------------------------------------------
(* Claims about extract() on the extractor of a server process *)

\* the record the call returns when the table holds only the tokens that
\* image_to_data gave during this call
WithOwnTable ==
    LET draft == smart_field_extraction(all_extracted_texts, request_table)
    IN IF preprocessed_images # <<>> /\ Truthy(mrz_data.mrz_text)
       THEN enhance_extraction_with_mrz(draft, mrz_data)
       ELSE draft

\* C2 (as stated): the confidence_scores a call returns depend only on the
\* tokens collected during that call, whatever the calls before it were
C2_RequestScoped ==
    pc = "done" => result.confidence_scores = WithOwnTable.confidence_scores

NullOrPassportNumber(v) == v = None \/ InPassportLanguage(v)

\* C5 (as stated): in every state of the pipeline passport_number is null or a
\* string of [A-Z]?[0-9]{8,9}, in the draft and in the record to return
C5_PassportNumberLanguage ==
    /\ NullOrPassportNumber(data.passport_number)
    /\ pc \in {"score", "done"} => NullOrPassportNumber(result.passport_number)

NineFields ==
    {"passport_number", "full_name", "nationality", "date_of_birth", "date_of_issue",
     "date_of_expiry", "sex", "place_of_birth", "place_of_issue"}

Populated(d) == Cardinality({f \in NineFields : d[f] # None /\ d[f] # ""})

\* C10: the extraction_score returned (in hundredths) is k/9*100 rounded to two
\* decimals, k counting the populated important fields of the returned
\* record; it lies in [0,100]; k = 5 gives 55.56
C10_ScoreAfterFusion ==
    pc = "done" =>
        LET k == Populated(result)
            s == result.extraction_score
        IN /\ s \in 0..(100 * 100)
           /\ 2 * (9 * s - 100 * 100 * k) <= 9
           /\ 2 * (100 * 100 * k - 9 * s) <= 9
           /\ k = 5 => s = 5556

\* five fields populated only thanks to the MRZ: 55.56
C10_Witness ==
    /\ pc = "done"
    /\ "mrz_text" \in DOMAIN result
    /\ Populated(data) < 5
    /\ Populated(result) = 5
    /\ result.extraction_score = 5556

-----------------------------------------------------------------------------
(* Claims about enhance_extraction_with_mrz *)

\* the rule for one mapping, from the draft and the MRZ record before the call
\* to the record after it
FusionRuleAt(i, draft, m, enhanced) ==
    LET mrz_field == field_mapping[i][1]
        field     == field_mapping[i][2]
        empty     == draft[field] = None \/ draft[field] = ""
        recorded  == IF field \in DOMAIN draft.confidence_scores
                     THEN draft.confidence_scores[field] ELSE 0
    IN (m[mrz_field] # None /\ m[mrz_field] # "") =>
          IF empty \/ m.mrz_confidence > recorded
          THEN /\ enhanced[field] = m[mrz_field]
               /\ enhanced.confidence_scores[field] = m.mrz_confidence
               /\ enhanced.extraction_method[field] = m.extraction_method
          ELSE /\ enhanced[field] = draft[field]
               /\ field \in DOMAIN enhanced.confidence_scores
               /\ enhanced.confidence_scores[field] = recorded
               /\ (field \in DOMAIN enhanced.extraction_method)
                     = (field \in DOMAIN draft.extraction_method)
               /\ field \in DOMAIN draft.extraction_method =>
                     enhanced.extraction_method[field] = draft.extraction_method[field]

\* C3: a field the MRZ holds a value for is overridden iff it is empty or
\* mrz_confidence is strictly greater than its recorded confidence; on override
\* it gets the MRZ value, mrz_confidence and the MRZ method, otherwise its
\* value, confidence and method stay
C3_FusionRule ==
    [][pc = "fuse" =>
         \A i \in 1..Len(field_mapping) : FusionRuleAt(i, data, mrz_data, result')]_vars

\* sex F at 0.9 against an MRZ at 0.7 with sex M stays F, while the empty
\* passport_number takes the MRZ's document number at 0.7
C3_Witness ==
    /\ pc = "score"
    /\ data.sex = "F" /\ result.sex = "F"
    /\ "sex" \in DOMAIN result.confidence_scores
    /\ result.confidence_scores["sex"] = Pct(90)
    /\ mrz_data.sex = "M" /\ mrz_data.mrz_confidence = Pct(70)
    /\ data.passport_number = None
    /\ result.passport_number = mrz_data.passport_number
    /\ result.confidence_scores["passport_number"] = Pct(70)
    /\ result.extraction_method["passport_number"] = "fallback_ocr"


-----------------------------------------------------------------------------
(* Claims about _format_date *)

\* a six-digit YYMMDD with month in 1..12 and day in 1..31
IsMrzDate(s) ==
    /\ s # None
    /\ Len(s) = 6
    /\ AllDigits(s, 1, 6)
    /\ ParseInt(SubSeq(s, 3, 4)) \in 1..12
    /\ ParseInt(SubSeq(s, 5, 6)) \in 1..31

\* DD-MM-YYYY of a six-digit YYMMDD, the century cut at YY = 30
DayMonthYear(s) ==
    SubSeq(s, 5, 6) \o "-" \o SubSeq(s, 3, 4) \o "-"
        \o (IF ParseInt(SubSeq(s, 1, 2)) < 30 THEN "20" ELSE "19") \o SubSeq(s, 1, 2)

\* C11 (as stated): _format_date returns DD-MM-YYYY, the century cut at YY = 30,
\* for a six-digit YYMMDD with month in 1..12 and day in 1..31, and null for
\* every other input
C11_FormatDateTotal ==
    pc = "returned" =>
        helper_call.returned = IF IsMrzDate(helper_call.date_str)
                               THEN DayMonthYear(helper_call.date_str)
                               ELSE None

-----------------------------------------------------------------------------
(* Claims about parse_date_string *)

\* C12 (as stated): a (day, month, year) with day in 1..31, month in 1..12 and
\* year in 1900..2100, formatted DD-MM-YYYY as the extractor formats it and
\* parsed by parse_date_string, comes back as the same (day, month, year)
C12_DateRoundTrip ==
    (pc = "returned" /\ helper_call.day \in 1..31 /\ helper_call.month \in 1..12
        /\ helper_call.year \in 1900..2100)
      => helper_call.returned
           = DateReturned(<<helper_call.day, helper_call.month, helper_call.year>>)

-----------------------------------------------------------------------------
(* Claims about the record of extract() *)

RecordFields ==
    {"passport_type", "country_code", "passport_number", "full_name", "nationality",
     "place_of_birth", "place_of_issue", "sex", "date_of_birth", "date_of_issue",
     "date_of_expiry", "national_id"}

KeysNamePopulatedFields(r, keys) == \A k \in keys : k \in RecordFields /\ r[k] # None

RecordShape(r) ==
    /\ RecordFields \subseteq DOMAIN r
    /\ KeysNamePopulatedFields(r, DOMAIN r.confidence_scores)
    /\ KeysNamePopulatedFields(r, DOMAIN r.extraction_method)

\* C13: the draft record after every extractor step, and the record extract()
\* holds after the MRZ fusion and returns, have all 12 field names as keys, and
\* every key of confidence_scores and of extraction_method names a field
\* whose value is not null
C13_RecordShape ==
    IF pc \in {"score", "done"} THEN RecordShape(result) ELSE RecordShape(data)

\* a returned record in which the fusion filled a field the extractors left
\* null, next to a field the extractors filled
C13_Witness ==
    /\ pc = "done"
    /\ "mrz_text" \in DOMAIN result
    /\ \E k \in DOMAIN result.extraction_method :
          /\ result.extraction_method[k] \in {"fastmrz", "fallback_ocr"}
          /\ k \notin DOMAIN smart_field_extraction(all_extracted_texts, ocr_confidence_data).extraction_method
    /\ \E k \in DOMAIN result.extraction_method :
          result.extraction_method[k] \notin {"fastmrz", "fallback_ocr"}

ExtractorFields ==
    {"passport_number", "national_id", "date_of_birth", "date_of_issue", "date_of_expiry",
     "full_name", "sex", "place_of_birth", "place_of_issue", "nationality"}

\* the confidence is what _calculate_dynamic_confidence gives for the value on
\* the table of the call, for one of the base confidences
IsDynamicConfidence(confidence, value, table) ==
    \E b \in BaseConfidences \cup {Pct(98)} :
        confidence = calculate_dynamic_confidence(value, b, table)

\* C14 (as stated): every field a field extractor populated has, in the draft
\* record, a confidence_scores entry computed by the dynamic confidence model
\* and an extraction_method entry
C14_ConfidenceAndProvenance ==
    pc \notin {"score", "done"} =>
        \A f \in ExtractorFields :
            data[f] # None =>
                /\ f \in DOMAIN data.extraction_method
                /\ f \in DOMAIN data.confidence_scores
                /\ IsDynamicConfidence(data.confidence_scores[f], data[f],
                                       ocr_confidence_data)

\* the call got no image, or no observation and no MRZ text
TotalInputFailure ==
    \/ preprocessed_images = <<>>
    \/ all_extracted_texts = <<>> /\ ~Truthy(mrz_data.mrz_text)

\* C15: extract() called with an empty image map, or with images that give no
\* observation and no MRZ text, returns a record whose 12 fields are null,
\* whose confidence_scores and extraction_method are empty, whose score is 0
\* and whose summary is "0/11 fields extracted"
C15_TotalFailureIsAValue ==
    (pc = "done" /\ TotalInputFailure) =>
        /\ \A f \in RecordFields : result[f] = None
        /\ result.confidence_scores = EmptyDict
        /\ result.extraction_method = EmptyDict
        /\ result.extraction_score = 0
        /\ result.extraction_summary = "0/11 fields extracted"

\* a call that returned for an image on which every pass came back without
\* text and the MRZ decoders failed, after an earlier call had filled the
\* token table
C15_Witness ==
    /\ pc = "done"
    /\ Len(preprocessed_images) = 1
    /\ all_extracted_texts = <<>>
    /\ mrz_data.extraction_method = "fastmrz_failed"
    /\ result.extraction_score = 0
    /\ \E id \in DOMAIN ocr_confidence_data : ocr_confidence_data[id].text # <<>>

-----------------------------------------------------------------------------
(* Claims about _multi_pass_extraction *)

\* what the i-th pass, in the fixed order, did on a page: whether it raised,
\* and its output
PassOutcomeAt(page, i) ==
    IF i <= 4 THEN page.string[i]
    ELSE IF i <= 6 THEN page.lang[i - 4]
    ELSE IF i = 7
    THEN [raises |-> page.data.raises,
          text   |-> IF page.data.raises THEN "" ELSE JoinWords(high_conf_text(page.data))]
    ELSE page.regions[i - 7]

PassSucceeded(page, i) ==
    ~PassOutcomeAt(page, i).raises /\ Strip(PassOutcomeAt(page, i).text) # ""

\* C16: whatever passes raise, _multi_pass_extraction returns, and the list it
\* returns holds exactly the outputs with text of the passes that did not
\* raise, under their names, in the fixed pass order
C16_FailingPassesAreSkipped ==
    pc = "returned" =>
        LET page == helper_call.image.page
            obs  == helper_call.returned
            kept == {i \in 1..Len(PassNames) : PassSucceeded(page, i)}
        IN /\ Len(obs) = Cardinality(kept)
           /\ \A k \in 1..Len(obs) :
                 \E i \in kept :
                    /\ Cardinality({j \in kept : j <= i}) = k
                    /\ obs[k] = <<PassNames[i], PassOutcomeAt(page, i).text>>

\* standard, eng_lang, the confidence pass and region_center raise; the six
\* other passes give their text, in order
C16_Witness ==
    /\ pc = "returned"
    /\ {i \in 1..Len(PassNames) : PassOutcomeAt(helper_call.image.page, i).raises} = {1, 5, 7, 9}
    /\ [k \in 1..Len(helper_call.returned) |-> helper_call.returned[k][1]]
          = <<"single_column", "uniform_block", "single_line", "ara_lang",
              "region_top_right", "region_bottom">>

-----------------------------------------------------------------------------
(* Claims about the MRZ resolver *)

\* the number of non-empty fields among the six of the MRZ confidence
FilledMrzFields(m) ==
    Cardinality({f \in {"passport_number", "nationality", "date_of_birth",
                        "date_of_expiry", "sex", "names"} : m[f] \notin {None, ""}})

\* c / ConfOne = min(1, f/6 + 0.2 [mrz_text non-empty] + 0.1 [method = fastmrz]),
\* multiplied through by 30
IsMrzConfidence(c, m) ==
    30 * c = Min(30 * ConfOne,
                 ConfOne * (5 * FilledMrzFields(m)
                              + (IF m.mrz_text \notin {None, ""} THEN 6 ELSE 0)
                              + (IF m.extraction_method = "fastmrz" THEN 3 ELSE 0)))

\* C17: a computed mrz_confidence is min(1.0, f/6 + 0.2 [mrz_text non-empty]
\* + 0.1 [extraction_method = fastmrz]), f the number of non-empty fields among
\* the six; the mrz_confidence of every record extract_mrz_data returns is in
\* [0, 1]
C17_MrzConfidence ==
    /\ pc = "returned" => IsMrzConfidence(helper_call.returned, helper_call.mrz_data)
    /\ pc = "fuse" =>
          /\ 0 <= mrz_data.mrz_confidence /\ mrz_data.mrz_confidence <= ConfOne
          /\ mrz_data.extraction_method \in {"fastmrz", "fallback_ocr"} =>
                IsMrzConfidence(mrz_data.mrz_confidence, mrz_data)

\* all six fields with MRZ text from the primary decoder: 1.3 capped to 1.0
C17_Witness ==
    /\ pc = "returned"
    /\ FilledMrzFields(helper_call.mrz_data) = 6
    /\ helper_call.mrz_data.mrz_text = "P<SDN"
    /\ helper_call.mrz_data.extraction_method = "fastmrz"
    /\ helper_call.returned = ConfOne

DecodersCalled == [k \in 1..Len(mrz_decoders) |-> mrz_decoders[k].decoder]

\* C18: extract_mrz_data calls the primary decoder first when it is available
\* (and never when it is not); the fallback runs, after it, exactly when the
\* primary attempt left mrz_text empty, and not once the primary has produced
\* mrz_text
C18_PrimaryThenFallback ==
    pc = "fuse" =>
        IF ~FASTMRZ_AVAILABLE
        THEN DecodersCalled = <<"_extract_with_fallback">>
        ELSE IF mrz_decoders[1].mrz_text \in {None, ""}
        THEN DecodersCalled = <<"_extract_with_fastmrz", "_extract_with_fallback">>
        ELSE DecodersCalled = <<"_extract_with_fastmrz">>

\* the primary decoder produced the MRZ text and then failed: the fallback
\* is not called
C18_Witness ==
    /\ pc = "fuse"
    /\ mrz_data.extraction_method = "fastmrz_failed"
    /\ Truthy(mrz_data.mrz_text)
    /\ DecodersCalled = <<"_extract_with_fastmrz">>

\* C19: when extract_mrz_data returned a record without MRZ text, the record
\* extract() returns has the 12 field values, the confidence_scores and the
\* extraction_method of the draft the field extractors produced
C19_NoMrzTextNoContribution ==
    (pc = "done" /\ preprocessed_images # <<>> /\ mrz_data.mrz_text \in {None, ""}) =>
        LET draft == smart_field_extraction(all_extracted_texts, ocr_confidence_data)
        IN /\ \A f \in RecordFields : result[f] = draft[f]
           /\ result.confidence_scores = draft.confidence_scores
           /\ result.extraction_method = draft.extraction_method

\* both decoders were tried and failed, and the returned record has the
\* passport number of the extractors
C19_Witness ==
    /\ pc = "done"
    /\ mrz_data.extraction_method = "fastmrz_failed"
    /\ mrz_data.mrz_text = None
    /\ Len(mrz_decoders) = 2
    /\ result.passport_number = "P12345678"
    /\ "passport_number" \in DOMAIN result.extraction_method

-----------------------------------------------------------------------------
\* a request made with token T to an endpoint guarded by @require_auth
GuardedRequest(remote_addr, token) ==
    \/ logout(remote_addr, Bearer(token))
    \/ admin_stats(remote_addr, Bearer(token))
    \/ admin_security_logs(remote_addr, Bearer(token))

\* C20: logout invalidates the token: once a successful POST /auth/logout has been
\* made with JWT T, every later request presenting T to an endpoint guarded by
\* @require_auth is answered 401 and its handler does not run, although T has not
\* reached its expiry time
C20_LogoutInvalidatesToken ==
    [][\A remote_addr \in RemoteAddrs, token \in logged_out_tokens :
          (token.exp > now /\ GuardedRequest(remote_addr, token))
              => (response'.status = 401 /\ ~response'.handler_ran)]_vars

-----------------------------------------------------------------------------
\* the tokens of the table, of every image, that match a word of the value with
\* a confidence above 0
MatchingTokens(value, table) ==
    {ki \in UNION {{<<k, i>> : i \in 1..Len(table[k].text)} : k \in DOMAIN table} :
        /\ ki[2] <= Len(table[ki[1]].conf)
        /\ table[ki[1]].conf[ki[2]] > 0
        /\ table[ki[1]].text[ki[2]] # ""
        /\ InSeq(Upper(Strip(table[ki[1]].text[ki[2]])), Split(Upper(value)))}

RECURSIVE SumOfConfs(_, _)
SumOfConfs(tokens, table) ==
    IF tokens = {} THEN 0
    ELSE LET ki == CHOOSE x \in tokens : TRUE
         IN table[ki[1]].conf[ki[2]] + SumOfConfs(tokens \ {ki}, table)

\* h hundredths is a nearest hundredth of 0.6 * (sum / n) / 100 + 0.4 * b
IsNearestHundredth(h, sum, n, b) ==
    LET num == 6 * ConfOne * sum + 400 * b * n
        den == 10 * n * ConfOne
        d   == num - h * den
    IN  2 * d <= den /\ 0 - den <= 2 * d

\* C21: when a table token with confidence above 0 matches a word of the value,
\* the dynamic confidence is min(1.0, round(0.6 * avg / 100 + 0.4 * b, 2)) with
\* avg the mean of the matching confidences over every image of the table; and
\* every confidence returned lies in [0, 1]
C21_BlendedConfidence ==
    pc = "returned" =>
        LET value  == confidence_call.extracted_value
            tokens == MatchingTokens(value, ocr_confidence_data)
            n      == Cardinality(tokens)
            sum    == SumOfConfs(tokens, ocr_confidence_data)
        IN  /\ 0 <= confidence_call.returned /\ confidence_call.returned <= ConfOne
            /\ n > 0 =>
                 \E h \in 0..101 :
                    /\ IsNearestHundredth(h, sum, n, confidence_call.base_confidence)
                    /\ confidence_call.returned = Min(ConfOne, Pct(h))

\* tokens of two images match, at 87 and 100 and 50: the mean 79 with base 0.8
\* gives 0.474 + 0.32 = 0.79
C21_Witness ==
    /\ pc = "returned"
    /\ confidence_call.extracted_value = "Ali Hassan"
    /\ confidence_call.base_confidence = Pct(80)
    /\ DOMAIN ocr_confidence_data = {1, 2}
    /\ ocr_confidence_data[1].text = <<"ALI", " hassan\n">>
    /\ ocr_confidence_data[1].conf = <<87, 100>>
    /\ ocr_confidence_data[2].conf = <<50>>
    /\ ocr_confidence_data[2].text = <<"ALI">>
    /\ confidence_call.returned = Pct(79)

-----------------------------------------------------------------------------
\* the positions of the field extractors inside extract(), in the order of the
\* calls, and the fields each one writes
ExtractorOrder ==
    <<"passport_number", "national_id", "dates", "name", "sex", "place_of_birth",
      "place_of_issue", "nationality">>

FieldsWrittenAt(step) ==
    CASE step = "dates" -> {"date_of_birth", "date_of_issue", "date_of_expiry"}
      [] step = "name" -> {"full_name"}
      [] step = "nationality" -> {"nationality", "country_code", "passport_type"}
      [] OTHER -> {step}

\* a field of a record with the confidence and the method recorded for it
FieldEntry(d, f) ==
    <<d[f], Get(d.confidence_scores, f, 0 - 1), Get(d.extraction_method, f, Absent)>>

\* C22: within one extract() call the field extractors run once each in the order
\* passport number, national id, dates, name, sex, place of birth, place of
\* issue, nationality; a field an extractor has set is not written by a later
\* extractor; only the MRZ fusion, after the extractors and before the score and
\* the summary, may overwrite it
C22_ExtractorsOnceInOrder ==
    [][/\ \A i \in 1..Len(ExtractorOrder) :
             pc = ExtractorOrder[i] =>
                /\ pc' = IF i < Len(ExtractorOrder) THEN ExtractorOrder[i + 1] ELSE "mrz"
                /\ \A f \in RecordFields \ FieldsWrittenAt(pc) :
                       FieldEntry(data', f) = FieldEntry(data, f)
                /\ \A j \in 1..(i - 1) : \A f \in FieldsWrittenAt(ExtractorOrder[j]) :
                       Truthy(data[f]) => data'[f] = data[f]
       /\ pc' = ExtractorOrder[1] => pc \in {"idle", "done"} /\ data' = EmptyData
       /\ pc = "mrz" => pc' \in {"fuse", "score"} /\ data' = data
       /\ pc = "fuse" => pc' = "score"
       /\ pc = "score" =>
             /\ pc' = "done"
             /\ \A f \in RecordFields : FieldEntry(result', f) = FieldEntry(result, f)]_vars

\* the extractors have run and set their fields, and the fusion has replaced the
\* nationality of the extractor by the one of the MRZ and kept the place of birth
C22_Witness ==
    /\ pc = "done"
    /\ "mrz_text" \in DOMAIN result
    /\ data.nationality = "SUDANESE" /\ result.nationality = "SDN"
    /\ Truthy(data.national_id) /\ Truthy(data.place_of_birth)
    /\ result.place_of_birth = data.place_of_birth

-----------------------------------------------------------------------------
\* the first character, upper-cased, of group 1 of the match of sex pattern p on
\* the combined text; None if the pattern does not match
SexCharacter(p, all_texts) ==
    LET value == SearchCombined(p, all_texts, 1)
    IN  IF value = None \/ value = "" THEN None ELSE Upper(SubSeq(value, 1, 1))

MatchingSexPatterns(all_texts) ==
    {p \in 1..NumSexPatterns : SearchCombined(p, all_texts, 1) # None}

AcceptedSexPatterns(all_texts) ==
    {p \in 1..NumSexPatterns : SexCharacter(p, all_texts) \in {"M", "F"}}

First(patterns) == CHOOSE p \in patterns : \A x \in patterns : p <= x

-----------------------------------------------------------------------------
\* the text _parse_mrz_text was called on, line by line
ParsedLines == SplitOn(helper_call.mrz_text, "\n")

\* chars[lo:hi] of the second line, in Python's numbering
SecondLineChars(lo, hi) == SubSeq(ParsedLines[2], lo + 1, hi)

\* a key of the returned dict, None when the dict has no such key
Parsed(key) == Get(helper_call.returned, key, None)

\* C24: the second line of the fallback MRZ text is used only if it has at
\* least 44 characters; then passport_number is chars[0:9] without the '<'
\* fillers (not set if nothing is left), date_of_birth is the formatted
\* chars[13:19], sex is chars[20] only if M or F, date_of_expiry is the
\* formatted chars[21:27]; a shorter second line sets none of the four;
\* issuing_country and names are set only from a first line starting 'P<'
C24_Td3FixedOffsets ==
    pc = "parsed_mrz_text" =>
        /\ Len(ParsedLines) >= 2 /\ Len(ParsedLines[2]) >= 44 =>
              /\ Parsed("passport_number") =
                    (IF Replace(SecondLineChars(0, 9), "<", "") = "" THEN None
                     ELSE Replace(SecondLineChars(0, 9), "<", ""))
              /\ Parsed("date_of_birth") = format_date(SecondLineChars(13, 19))
              /\ Parsed("sex") =
                    (IF SecondLineChars(20, 21) \in {"M", "F"}
                     THEN SecondLineChars(20, 21) ELSE None)
              /\ Parsed("date_of_expiry") = format_date(SecondLineChars(21, 27))
        /\ Len(ParsedLines) < 2 \/ Len(ParsedLines[2]) < 44 =>
              \A key \in {"passport_number", "date_of_birth", "sex", "date_of_expiry"} :
                  key \notin DOMAIN helper_call.returned
        /\ \A key \in {"issuing_country", "names"} :
              key \in DOMAIN helper_call.returned =>
                  /\ Len(ParsedLines) >= 2
                  /\ SubSeq(ParsedLines[1], 1, 2) = "P<"

\* a 44-character second line read at the four offsets, under a 'P<' first line
C24_Witness ==
    /\ pc = "parsed_mrz_text"
    /\ Len(ParsedLines) = 2 /\ Len(ParsedLines[2]) = 44
    /\ helper_call.returned =
          [issuing_country |-> "SDN", names |-> "ALI AHMED HASSAN OMAR",
           passport_number |-> "AB12", date_of_birth |-> "15-06-1985",
           sex |-> "F", date_of_expiry |-> "01-01-2029"]

-----------------------------------------------------------------------------
\* the extraction methods of a record without a decode
FailedMethods == {"none", "fastmrz_failed", "fallback_failed"}

\* C25: in every record extract_mrz_data returned, mrz_text is non-null exactly
\* when extraction_method is fastmrz or fallback_ocr; a record whose method is
\* none, fastmrz_failed or fallback_failed has mrz_text null and mrz_confidence
\* 0.0, and is not merged into the record extract() returns
C25_MrzRecordConsistent ==
    pc \in {"fuse", "score", "done"} /\ preprocessed_images # <<>> =>
        /\ mrz_data.mrz_text # None <=>
              mrz_data.extraction_method \in {"fastmrz", "fallback_ocr"}
        /\ mrz_data.extraction_method \in FailedMethods =>
              /\ mrz_data.mrz_text = None
              /\ mrz_data.mrz_confidence = 0
              /\ pc = "done" => "mrz_text" \notin DOMAIN result

-----------------------------------------------------------------------------
\* C26: enhance_extraction_with_mrz leaves both of its inputs unchanged: after
\* the call the draft record passed in (its 12 fields and its nested
\* confidence_scores and extraction_method maps) and the MRZ record are equal
\* to what they were before the call
C26_EnhanceLeavesInputsUnchanged ==
    [][(pc = "fuse" /\ Truthy(mrz_data.mrz_text) /\ pc' = "score") =>
          /\ data' = data
          /\ mrz_data' = mrz_data]_vars

-----------------------------------------------------------------------------
\* the confidence recorded for a field of a record, 0.0 when there is none
RecordedConfidence(r, f) == Get(r.confidence_scores, f, 0)

\* C27: every field that is non-empty before enhance_extraction_with_mrz is
\* non-empty in the record it returns, with a recorded confidence (a missing
\* entry counting as 0.0) greater than or equal to the one before
C27_FusionNeverDegrades ==
    [][(pc = "fuse" /\ Truthy(mrz_data.mrz_text) /\ pc' = "score") =>
          \A f \in RecordFields :
              Truthy(data[f]) =>
                  /\ Truthy(result'[f])
                  /\ RecordedConfidence(result', f) >= RecordedConfidence(data, f)]_vars

\* a fusion on a draft with four populated fields: the sex is replaced by the
\* MRZ's at a higher confidence, the country code set without a confidence is
\* replaced, the passport number and the name, more confident than the MRZ,
\* are kept
C27_Witness ==
    /\ pc = "score"
    /\ data.sex = "F" /\ result.sex = "M"
    /\ RecordedConfidence(result, "sex") = mrz_data.mrz_confidence
    /\ data.country_code = "SDN" /\ RecordedConfidence(result, "country_code") > 0
    /\ Truthy(mrz_data.passport_number)
    /\ mrz_data.passport_number # data.passport_number
    /\ result.passport_number = data.passport_number
    /\ RecordedConfidence(result, "passport_number") = Pct(95)
    /\ result.full_name = "KHALID OSMAN"

-----------------------------------------------------------------------------
\* the calls for an identifier that returned True with a timestamp in
\* (time - window_seconds, time]
Admitted(returns, identifier, time) ==
    {k \in 1..Len(returns) :
        /\ returns[k].identifier = identifier
        /\ returns[k].returned
        /\ returns[k].time > time - rate_limit_window
        /\ returns[k].time <= time}

\* the entries the limiter holds for an identifier, as a bag of timestamps
EntriesOf(requests, identifier) == Get(requests, identifier, <<>>)

\* C28: with calls made one at a time and a clock that never goes back, the
\* calls for an identifier that returned True within one window never exceed
\* requests_per_window; a call that returns False adds no entry; a call for
\* one identifier leaves the entries of the others as they were; and
\* is_allowed returns True exactly when get_remaining at the same instant is
\* greater than 0
C28_SequentialLimit ==
    [][/\ \A identifier \in Identifiers :
             Cardinality(Admitted(is_allowed_returns', identifier, now'))
                 <= rate_limit_requests
       /\ is_allowed_returns' # is_allowed_returns =>
             LET call == is_allowed_returns'[Len(is_allowed_returns')]
             IN  /\ ~call.returned =>
                       /\ Len(EntriesOf(rate_limiter_requests', call.identifier))
                             <= Len(EntriesOf(rate_limiter_requests, call.identifier))
                       /\ \A k \in 1..Len(EntriesOf(rate_limiter_requests',
                                                     call.identifier)) :
                             \E j \in 1..Len(EntriesOf(rate_limiter_requests,
                                                       call.identifier)) :
                                EntriesOf(rate_limiter_requests', call.identifier)[k]
                                    = EntriesOf(rate_limiter_requests, call.identifier)[j]
                 /\ \A other \in Identifiers \ {call.identifier} :
                       /\ (other \in DOMAIN rate_limiter_requests')
                             = (other \in DOMAIN rate_limiter_requests)
                       /\ EntriesOf(rate_limiter_requests', other)
                             = EntriesOf(rate_limiter_requests, other)
                 /\ call.returned <=> call.remaining > 0]_vars

\* an identifier at its limit is refused while another is admitted at the
\* same instant, and is admitted again once its window has passed
C28_Witness ==
    \E i, j, k \in 1..Len(is_allowed_returns) :
        /\ i < j /\ j < k
        /\ ~is_allowed_returns[i].returned
        /\ is_allowed_returns[i].remaining = 0
        /\ is_allowed_returns[j].identifier # is_allowed_returns[i].identifier
        /\ is_allowed_returns[j].time = is_allowed_returns[i].time
        /\ is_allowed_returns[j].returned
        /\ is_allowed_returns[k].identifier = is_allowed_returns[i].identifier
        /\ is_allowed_returns[k].returned
        /\ Len(EntriesOf(rate_limiter_requests, is_allowed_returns[i].identifier)) = 1

\* C29: with is_allowed called from request threads, for every interleaving
\* of calls for the same identifier the requests admitted within one window
\* never exceed requests_per_window, and the entry of every admitted request
\* of the window is in the limiter's state
C29_ConcurrentLimit ==
    \A identifier \in Identifiers :
        /\ Cardinality(Admitted(is_allowed_returns, identifier, now)) <= rate_limit_requests
        /\ Cardinality({k \in 1..Len(EntriesOf(rate_limiter_requests, identifier)) :
                           EntriesOf(rate_limiter_requests, identifier)[k][1]
                               > now - rate_limit_window})
              >= Cardinality(Admitted(is_allowed_returns, identifier, now))

-----------------------------------------------------------------------------
RECURSIVE SumOfScores(_)
SumOfScores(scores) ==
    IF scores = <<>> THEN 0 ELSE Head(scores) + SumOfScores(Tail(scores))

\* C30: after any sequence of requests to the three /secure/* endpoints,
\* handled one at a time, average_accuracy is the arithmetic mean of the
\* extraction scores of exactly the extractions counted in
\* successful_extractions, and successful_extractions + failed_extractions
\* is at most total_requests
C30_StatisticsConsistent ==
    /\ Len(counted_scores) = stats.successful_extractions
    /\ stats.successful_extractions > 0 =>
          stats.average_accuracy
              = Rational(SumOfScores(counted_scores), Len(counted_scores))
    /\ stats.successful_extractions + stats.failed_extractions <= stats.total_requests
=============================================================================
